---- MODULE Spec2Model ----
(***************************************************************************)
(* Token exchange and authorization core of fastmcp-hybrid-auth.           *)
(*                                                                         *)
(*   src/src/auth/keycloak_client.py   KeycloakToken, KeycloakClient,      *)
(*                                     KeycloakTokenCache                  *)
(*   src/src/auth/token_exchange.py    TokenExchangeService, the global    *)
(*                                     service, get_auth_context           *)
(*   src/src/auth/authorization.py     the five gates (decorators)         *)
(*                                                                         *)
(* Time is datetime.utcnow() in seconds.  Python's None is Absent where a  *)
(* string is expected and NoToken / NoContext where an object is; a key    *)
(* that a dict of claims does not have is Missing.                         *)
(* The realm (the HTTP token endpoint) is the environment: whether a call  *)
(* succeeds, and the expires_in and refresh_token of its response, are     *)
(* chosen nondeterministically.                                            *)
(***************************************************************************)
EXTENDS Integers, Sequences, FiniteSets, TLC

VARIABLES
    now,        \* datetime.utcnow(), seconds
    service,    \* _token_exchange_service is not None
    cache_tokens,  \* the service's cache_tokens (True while there is none)
    cache,      \* the service's KeycloakTokenCache._cache
    serial,     \* number of tokens the realm has issued
    calls,      \* per slot: the call in progress or last completed
    lastOp,     \* the last direct operation on the cache, with its result
    evicted,    \* users whose entry a direct get evicted, no put since
    config      \* a ServerConfig and what validate() did on it

vars == <<now, service, cache_tokens, cache, serial, calls, lastOp, evicted,
         config>>

(***************************************************************************)
(* Bounds of the model.                                                    *)
(***************************************************************************)
\* the clock stops at MaxTime seconds
MaxTime == 400
\* the realm issues at most MaxIssued tokens
MaxIssued == 3

\* the clock advances by one of these many seconds between two steps
TickSteps == {100}

\* call slots (logical tasks); the sequential specification uses SeqSlots
Slots == {1, 2}
SeqSlots == {1}

(***************************************************************************)
(* Python values.                                                          *)
(***************************************************************************)
Absent == "<absent>"
\* the value of a claim whose key is not in the dict of claims
Missing == "<missing>"
\* the user id of a call that has not derived one
NoUser == "<no user>"
NoToken == [absent |-> TRUE]
NoContext == [absent |-> TRUE]
NoClaim == [absent |-> TRUE]

\* bool(s) of an Optional[str]
Truthy(s) == s # Absent /\ s # Missing /\ s # ""

\* d.get(key, default) where v is the value under key, or Missing: a key
\* that holds None yields None, not the default
DictGet(v, default) == IF v = Missing THEN default ELSE v

Range(s) == {s[i] : i \in DOMAIN s}

(***************************************************************************)
(* KeycloakToken: keycloak_client.py 18-47.  Its token_type and scope,     *)
(* which nothing reads, are left out.                                      *)
(***************************************************************************)
\* timedelta(minutes=5), in seconds
REFRESH_WINDOW == 300
\* token_data.get("expires_in", 300)
DEFAULT_EXPIRES_IN == 300

is_expired_strict(t, time) == time > t.expires_at

is_expired(t, time) == time >= t.expires_at

needs_refresh_only_expired(t, time) == time >= t.expires_at

needs_refresh(t, time) == time >= t.expires_at - REFRESH_WINDOW

(***************************************************************************)
(* The realm: what the token endpoint answers.  The access token is a JWT; *)
(* its claims are what jwt.decode(access_token) yields.  The realm maps    *)
(* the subject of the primary token to a realm subject with fixed claims.  *)
(* A claim object that may lack its "roles" key is [has_roles, roles].     *)
(* The realm subject Absent is a user whose tokens carry "sub": null, the  *)
(* realm subject "" one whose tokens carry no "sub" claim.                 *)
(***************************************************************************)
Resources == {"critical-data-api", "reports"}

NoResourceAccess == [r \in Resources |-> NoClaim]

\* claims of the access tokens the realm issues, by realm subject
RealmClaims(sub) ==
    CASE sub = "kc-1" ->
           [sub |-> "kc-1", email |-> Missing, preferred_username |-> "ann",
            realm_access |-> [has_roles |-> TRUE, roles |-> <<"data_reader">>],
            has_resource_access |-> TRUE,
            resource_access |->
                [r \in Resources |->
                    IF r = "critical-data-api"
                    THEN [has_roles |-> TRUE, roles |-> <<"writer">>]
                    ELSE NoClaim]]
      [] sub = "kc-2" ->
           [sub |-> "kc-2", email |-> "bob@realm.example",
            preferred_username |-> "bob",
            realm_access |->
                [has_roles |-> TRUE, roles |-> <<"admin", "data_reader">>],
            has_resource_access |-> TRUE,
            resource_access |->
                [r \in Resources |->
                    IF r = "reports"
                    THEN [has_roles |-> FALSE, roles |-> <<>>]
                    ELSE NoClaim]]
      [] sub = "kc-3" ->
           [sub |-> "kc-3", email |-> "carol@realm.example",
            preferred_username |-> Missing,
            realm_access |-> NoClaim,
            has_resource_access |-> FALSE,
            resource_access |-> NoResourceAccess]
      [] sub = Absent ->
           [sub |-> Absent, email |-> Absent, preferred_username |-> Absent,
            realm_access |-> NoClaim,
            has_resource_access |-> FALSE,
            resource_access |-> NoResourceAccess]
      [] sub = "" ->
           [sub |-> Missing, email |-> Missing, preferred_username |-> Missing,
            realm_access |-> NoClaim,
            has_resource_access |-> FALSE,
            resource_access |-> NoResourceAccess]
      [] OTHER ->
           [sub |-> sub, email |-> Missing, preferred_username |-> Missing,
            realm_access |-> NoClaim,
            has_resource_access |-> FALSE,
            resource_access |-> NoResourceAccess]

\* the expires_in field of a token response: <<>> when the response has none
ExpiresInValues == {<<>>, <<0>>, <<400>>}

\* token_data.get("expires_in", default)
GetExpiresIn(e, default) == IF e = <<>> THEN default ELSE e[1]
\* the refresh_token field of a token response
RefreshTokenValues == {Absent, "rt"}

\* what the realm is free to choose in a successful token response
ResponseShapes ==
    {[refresh_token |-> rt, expires_in |-> e] :
        rt \in RefreshTokenValues, e \in ExpiresInValues}

\* the JSON body of the n-th successful token response, for realm subject sub
TokenResponse(sub, n, shape) ==
    [access_token |-> [id |-> n, claims |-> RealmClaims(sub)],
     refresh_token |-> shape.refresh_token,
     expires_in |-> shape.expires_in]

parse_token_response_fixed_expiry(token_data, time) ==
    LET claims == token_data.access_token.claims
        expires_in == GetExpiresIn(token_data.expires_in, DEFAULT_EXPIRES_IN)
    IN [access_token |-> token_data.access_token.id,
        refresh_token |-> token_data.refresh_token,
        expires_in |-> expires_in,
        sub |-> DictGet(claims.sub, ""),
        preferred_username |-> DictGet(claims.preferred_username, ""),
        email |-> DictGet(claims.email, Absent),
        roles |-> IF claims.realm_access # NoClaim
                     /\ claims.realm_access.has_roles
                  THEN claims.realm_access.roles
                  ELSE <<>>,
        resource_access |-> IF claims.has_resource_access
                            THEN claims.resource_access
                            ELSE NoResourceAccess,
        issued_at |-> time,
        expires_at |-> time + GetExpiresIn(token_data.expires_in, 0)]

\* KeycloakClient._parse_token_response, keycloak_client.py 188-225
parse_token_response_default_role(token_data, time) ==
    LET claims == token_data.access_token.claims
        expires_in == GetExpiresIn(token_data.expires_in, DEFAULT_EXPIRES_IN)
    IN [access_token |-> token_data.access_token.id,
        refresh_token |-> token_data.refresh_token,
        expires_in |-> expires_in,
        sub |-> DictGet(claims.sub, ""),
        preferred_username |-> DictGet(claims.preferred_username, ""),
        email |-> DictGet(claims.email, Absent),
        roles |-> IF claims.realm_access # NoClaim
                     /\ claims.realm_access.has_roles
                  THEN claims.realm_access.roles
                  ELSE <<"data_reader">>,
        resource_access |-> IF claims.has_resource_access
                            THEN claims.resource_access
                            ELSE NoResourceAccess,
        issued_at |-> time,
        expires_at |-> time + expires_in]

parse_token_response(token_data, time) ==
    LET claims == token_data.access_token.claims
        expires_in == GetExpiresIn(token_data.expires_in, DEFAULT_EXPIRES_IN)
    IN [access_token |-> token_data.access_token.id,
        refresh_token |-> token_data.refresh_token,
        expires_in |-> expires_in,
        sub |-> DictGet(claims.sub, ""),
        preferred_username |-> DictGet(claims.preferred_username, ""),
        email |-> DictGet(claims.email, Absent),
        roles |-> IF claims.realm_access # NoClaim
                     /\ claims.realm_access.has_roles
                  THEN claims.realm_access.roles
                  ELSE <<>>,
        resource_access |-> IF claims.has_resource_access
                            THEN claims.resource_access
                            ELSE NoResourceAccess,
        issued_at |-> time,
        expires_at |-> time + expires_in]

(***************************************************************************)
(* Primary-domain tokens: the token string and its decoded claims.  A      *)
(* claim is Missing (no such key), Absent (present, null), "" (present,    *)
(* empty) or a value.  p2, p6 and p7 are tokens of one principal.          *)
(***************************************************************************)
PrimaryTokens ==
    {[token |-> "p1", oid |-> "u1", sub |-> "s1",
      email |-> "ann@example.com", preferred_username |-> Missing],
     [token |-> "p2", oid |-> Missing, sub |-> "u2",
      email |-> Missing, preferred_username |-> "bob"],
     [token |-> "p3", oid |-> Missing, sub |-> Missing,
      email |-> Missing, preferred_username |-> Missing],
     [token |-> "p4", oid |-> Missing, sub |-> Missing,
      email |-> Missing, preferred_username |-> Missing],
     [token |-> "p5", oid |-> Missing, sub |-> Absent,
      email |-> Absent, preferred_username |-> Missing],
     [token |-> "p6", oid |-> "", sub |-> "u2",
      email |-> "", preferred_username |-> "bob"],
     [token |-> "p7", oid |-> Absent, sub |-> "u2",
      email |-> Missing, preferred_username |-> "bob"]}

\* the claims of an ambient token object without a claims attribute: {}
EmptyClaims(tokenStr) ==
    [token |-> tokenStr, oid |-> Missing, sub |-> Missing,
     email |-> Missing, preferred_username |-> Missing]

\* the realm subject the realm maps a primary token string to
RealmSubject(tokenStr) ==
    CASE tokenStr = "p1" -> "kc-1"
      [] tokenStr = "p2" -> "kc-2"
      [] tokenStr = "p3" -> "kc-3"
      [] tokenStr = "p4" -> "kc-4"
      [] tokenStr = "p5" -> Absent
      [] tokenStr \in {"p6", "p7"} -> "kc-2"
      [] tokenStr = "None" -> ""
      [] OTHER -> "kc-0"

\* token_exchange.py 115: claims.get("oid") or claims.get("sub", "")
entra_user_id(claims) ==
    IF Truthy(claims.oid) THEN claims.oid ELSE DictGet(claims.sub, "")

\* token_exchange.py 116: claims.get("email") or claims.get("preferred_username")
entra_email(claims) ==
    IF Truthy(claims.email) THEN claims.email
    ELSE DictGet(claims.preferred_username, Absent)

UserIds == {entra_user_id(p) : p \in PrimaryTokens} \cup {""}

(***************************************************************************)
(* KeycloakTokenCache: keycloak_client.py 336-367.  The dict _cache is a   *)
(* function on UserIds; NoToken stands for a key that is not in the dict.  *)
(***************************************************************************)
EmptyCache == [u \in UserIds |-> NoToken]

\* the value get(user_id) returns at time `time`
cache_get_value_unchecked(c, u, time) == c[u]

cache_get_value_refreshable(c, u, time) ==
    IF c[u] # NoToken
       /\ (~is_expired(c[u], time) \/ Truthy(c[u].refresh_token))
    THEN c[u]
    ELSE NoToken

cache_get_value(c, u, time) ==
    IF c[u] # NoToken /\ ~is_expired(c[u], time) THEN c[u] ELSE NoToken

\* the dict after get(user_id) at time `time`: an expired entry is deleted
cache_get_store_keep(c, u, time) == c

cache_get_store_pop(c, u, time) == [c EXCEPT ![u] = NoToken]

cache_get_store_sweep(c, u, time) ==
    [v \in DOMAIN c |->
        IF c[v] # NoToken /\ is_expired(c[v], time) THEN NoToken ELSE c[v]]

cache_get_store(c, u, time) ==
    IF c[u] # NoToken /\ is_expired(c[u], time)
    THEN [c EXCEPT ![u] = NoToken]
    ELSE c

cache_set_merge(c, u, t) ==
    [c EXCEPT ![u] = IF c[u] = NoToken
                     THEN t
                     ELSE [t EXCEPT !.expires_at = c[u].expires_at]]

cache_set_keep_existing(c, u, t) ==
    IF c[u] = NoToken THEN [c EXCEPT ![u] = t] ELSE c

cache_set_latest_expiry(c, u, t) ==
    IF c[u] # NoToken /\ c[u].expires_at > t.expires_at
    THEN c
    ELSE [c EXCEPT ![u] = t]

cache_set(c, u, t) == [c EXCEPT ![u] = t]

cache_delete(c, u) == [c EXCEPT ![u] = NoToken]

cache_clear(c) == EmptyCache

(***************************************************************************)
(* Callers.  A call is one invocation of the orchestrator, either directly *)
(* (service.exchange_and_get_context, get_auth_context) or through a gate. *)
(* form: [kind, roles, resource, check]; src: where the primary token      *)
(* comes from, [via, p] with p the token and its claims.                   *)
(***************************************************************************)
Form(kind, roles, resource, check) ==
    [kind |-> kind, roles |-> roles, resource |-> resource, check |-> check]

DirectForms == {Form("direct", <<>>, Absent, Absent)}
ContextForms == {Form("get_auth_context", <<>>, Absent, Absent)}
RoleForms == {Form("role", <<r>>, Absent, Absent) : r \in {"admin", "data_reader"}}
AnyForms ==
    {Form("any", rs, Absent, Absent) :
        rs \in {<<>>, <<"admin", "data_reader">>}}
AllForms ==
    {Form("all", rs, Absent, Absent) :
        rs \in {<<>>, <<"admin", "data_reader">>}}
ResourceForms ==
    {Form("resource", <<"writer">>, res, Absent) : res \in Resources}
CustomChecks ==
    {"allow_all", "deny_all", "is_u1", "raises", "raises_authorization_error"}
CustomForms == {Form("custom", <<>>, Absent, k) : k \in CustomChecks}
NoForm == Form("none", <<>>, Absent, Absent)

GateKinds == {"role", "any", "all", "resource", "custom"}

\* a token string jwt.decode rejects
Garbage == EmptyClaims("garbage")
\* get_access_token() raises
AmbientRaises == EmptyClaims("<raises>")
\* get_access_token() returns None: str(None) is "None", the claims are {}
AmbientNone == EmptyClaims("None")

ArgSources == {[via |-> "arg", p |-> p] : p \in PrimaryTokens \cup {Garbage}}
AmbientSources ==
    {[via |-> "ambient", p |-> p] :
        p \in PrimaryTokens \cup {AmbientRaises, AmbientNone}}
NoSrc == [via |-> "none", p |-> EmptyClaims(Absent)]

\* token_exchange.py 100-112: the primary token string and its claims
ResolveSource(src) ==
    IF src.via = "arg"
    THEN IF src.p = Garbage
         THEN [ok |-> FALSE, error |-> "DecodeError"]
         ELSE [ok |-> TRUE, error |-> Absent]
    ELSE IF src.p = AmbientRaises
         THEN [ok |-> FALSE, error |-> "ValueError"]
         ELSE [ok |-> TRUE, error |-> Absent]

\* how the target operation ends once it is invoked: it returns a value,
\* raises an exception, or raises an AuthorizationError of its own
TargetOutcomes == {"r1", "r2", "<raises>", "<raises AuthorizationError>"}

\* what a tool of tools/authorized_tools.py returns: its result when its
\* own get_auth_context() gave a context, and the dict it makes of the
\* exception otherwise (authorized_tools.py 55-76)
ToolResults == {"<tool result>", "<tool error>"}

\* the values a target returns
TargetReturns == {"r1", "r2"} \cup ToolResults

\* the body of the target of a gate: a tool of the repository, whose first
\* statement awaits get_auth_context() and which then returns without
\* another await (authorized_tools.py 49-76, 91-111, 127-156, 171-196,
\* 212-233), or a plain coroutine that awaits something else and ends in
\* one of TargetOutcomes
TargetBodies(form) ==
    IF form.kind \in {"role", "any", "all", "resource", "custom"}
    THEN {"plain", "tool"}
    ELSE {"plain"}

\* A call: where it stands (pc), who called (form, src), and what it did.
\*   prev, prevHit  the token the call just before it on this slot returned
\*                  for the same user, and whether that call was a cache hit
\*   before         the user's cache entry when the call started
\*   readTok/readAt what the cache's get returned, and when
\*   nRefresh, nExchange    client calls made
\*   okRefresh, okExchange  client calls that returned a token
\*   nWrites        cache writes
\*   outcome, cause, ctx, result, required_roles, message
\*                  what the caller gets: outcome is "returned" or "context"
\*                  when the call returns, and the exception it raises
\*                  otherwise, with the exception's message and required_roles
\*   predicate, targetCalls, targetDid   the gate's verdict and the target
\*   body           the kind of the target's body (TargetBodies)
\*   targetReads, inner   the call of get_auth_context() that the body of a
\*                  tool has made, and what it gave; the fields of the
\*                  cache read and the counters of client calls then
\*                  include the tool's
\*   order          the iteration order of sets of role names in the process
\*   got            the token the awaited client call has parsed from the
\*                  realm's answer (pc "refreshed", "exchanged": the client
\*                  is being closed and the call has yet to return)
IdleCall ==
    [pc |-> "idle", form |-> NoForm, src |-> NoSrc, uid |-> NoUser,
     prev |-> NoToken, prevHit |-> FALSE,
     before |-> NoToken, readTok |-> NoToken, readAt |-> 0,
     nRefresh |-> 0, nExchange |-> 0, okRefresh |-> 0, okExchange |-> 0,
     nWrites |-> 0, replaced |-> NoToken,
     outcome |-> "none", cause |-> Absent, ctx |-> NoContext,
     predicate |-> "none", targetCalls |-> 0, targetDid |-> Absent,
     targetReads |-> 0, inner |-> "none", order |-> <<"admin", "data_reader">>,
     got |-> NoToken, body |-> "plain",
     result |-> Absent, required_roles |-> <<>>, message |-> Absent]

\* AuthContext(...), token_exchange.py 147-156
AuthContext_sub_first(src, token) ==
    [entra_id_token |-> src.p.token,
     entra_user_id |-> IF Truthy(src.p.sub) THEN src.p.sub
                       ELSE DictGet(src.p.oid, ""),
     entra_email |-> entra_email(src.p),
     keycloak_token |-> token,
     keycloak_user_id |-> token.sub,
     keycloak_roles |-> token.roles]

AuthContext(src, token) ==
    [entra_id_token |-> src.p.token,
     entra_user_id |-> entra_user_id(src.p),
     entra_email |-> entra_email(src.p),
     keycloak_token |-> token,
     keycloak_user_id |-> token.sub,
     keycloak_roles |-> token.roles]

(***************************************************************************)
(* The gates: authorization.py 34-254.                                     *)
(***************************************************************************)
\* the custom predicates check_func(ctx) of the model; "raises" raises an
\* exception and "raises_authorization_error" an AuthorizationError
CustomCheck(check, ctx) ==
    CASE check = "allow_all" -> TRUE
      [] check = "deny_all" -> FALSE
      [] check = "is_u1" -> ctx.entra_user_id = "u1"
      [] OTHER -> FALSE

GatePasses_any_empty_passes(form, ctx) ==
    CASE form.kind = "role" -> form.roles[1] \in Range(ctx.keycloak_roles)
      [] form.kind = "any" ->
           \/ form.roles = <<>>
           \/ Range(ctx.keycloak_roles) \cap Range(form.roles) # {}
      [] form.kind = "all" ->
           Range(form.roles) \ Range(ctx.keycloak_roles) = {}
      [] form.kind = "resource" ->
           LET ra == ctx.keycloak_token.resource_access[form.resource]
           IN ra # NoClaim /\ ra.has_roles /\ form.roles[1] \in Range(ra.roles)
      [] form.kind = "custom" -> CustomCheck(form.check, ctx)
      [] OTHER -> TRUE

GatePasses_resource_key_only(form, ctx) ==
    CASE form.kind = "role" -> form.roles[1] \in Range(ctx.keycloak_roles)
      [] form.kind = "any" ->
           Range(ctx.keycloak_roles) \cap Range(form.roles) # {}
      [] form.kind = "all" ->
           Range(form.roles) \ Range(ctx.keycloak_roles) = {}
      [] form.kind = "resource" ->
           ctx.keycloak_token.resource_access[form.resource] # NoClaim
      [] form.kind = "custom" -> CustomCheck(form.check, ctx)
      [] OTHER -> TRUE

\* the condition under which a gate lets the call through
GatePasses(form, ctx) ==
    CASE form.kind = "role" -> form.roles[1] \in Range(ctx.keycloak_roles)
      [] form.kind = "any" ->
           Range(ctx.keycloak_roles) \cap Range(form.roles) # {}
      [] form.kind = "all" ->
           Range(form.roles) \ Range(ctx.keycloak_roles) = {}
      [] form.kind = "resource" ->
           LET ra == ctx.keycloak_token.resource_access[form.resource]
           IN ra # NoClaim /\ ra.has_roles /\ form.roles[1] \in Range(ra.roles)
      [] form.kind = "custom" -> CustomCheck(form.check, ctx)
      [] OTHER -> TRUE

\* the role names that the gates of the model require
RoleNames == {"admin", "data_reader"}

\* The order in which Python iterates over a set of role names follows the
\* hashes of the names, which depend on the hash seed of the process
\* (PYTHONHASHSEED): every order of RoleNames is one a process can have.
IterationOrders ==
    {q \in [1..Cardinality(RoleNames) -> RoleNames] : Range(q) = RoleNames}

\* the iteration orders that a call through a gate of this form can tell
\* apart: only the all-of gate turns a set into a list
OrdersFor(form) ==
    IF form.kind = "all" /\ Cardinality(Range(form.roles)) > 1
    THEN IterationOrders
    ELSE {<<"admin", "data_reader">>}

\* list(S) for a set S of role names, iterated in this order
SetToSeq(S, order) ==
    LET In(x) == x \in S
    IN SelectSeq(order, In)

DeniedRoles_none(form, ctx, order) == <<>>

DeniedRoles_all_required(form, ctx, order) == form.roles

\* the required_roles of the AuthorizationError of a denied gate
DeniedRoles(form, ctx, order) ==
    CASE form.kind = "role" -> form.roles
      [] form.kind = "any" -> form.roles
      [] form.kind = "all" ->
           SetToSeq(Range(form.roles) \ Range(ctx.keycloak_roles), order)
      [] OTHER -> <<>>

\* ', '.join(roles)
RECURSIVE Join(_)
Join(roles) ==
    IF roles = <<>> THEN ""
    ELSE IF Len(roles) = 1 THEN roles[1]
    ELSE roles[1] \o ", " \o Join(Tail(roles))

\* str(e) of the exceptions a gate catches; the text of the client's httpx
\* error, of a raising check and of a raising target is the error's name
Str(error) ==
    CASE error = "RuntimeError" ->
           "Token exchange service not initialized. "
           \o "Call initialize_token_exchange_service() first."
      [] error = "ValueError" -> "No Entra ID token available"
      [] OTHER -> error

\* the message of the AuthorizationError that wraps another exception
WrappedMessage(error) == "Authorization check failed: " \o Str(error)

\* the error_message argument of the custom gates of the model: the default
\* (authorization.py 215)
ErrorMessage(check) == "Unauthorized"

\* the AuthorizationError that the check "raises_authorization_error" raises
CheckError ==
    [message |-> "denied by the check", required_roles |-> <<"manager">>]

\* the AuthorizationError that a target raises, when it raises one
TargetError ==
    [message |-> "inner denial", required_roles |-> <<"owner">>]

\* the message of the AuthorizationError of a denied gate; ', '.join of the
\* all-of gate iterates over the same set as list(missing_roles)
DeniedMessage(form, ctx, order) ==
    CASE form.kind = "role" ->
           "Insufficient permissions. Required role: " \o form.roles[1]
      [] form.kind = "any" ->
           "Insufficient permissions. Required any of: " \o Join(form.roles)
      [] form.kind = "all" ->
           "Insufficient permissions. Missing roles: "
           \o Join(DeniedRoles(form, ctx, order))
      [] form.kind = "resource" ->
           "Insufficient permissions. Required: "
           \o form.resource \o ":" \o form.roles[1]
      [] OTHER -> ErrorMessage(form.check)

\* format_authorization_error(error), authorization.py 351-366
format_authorization_error(message, required_roles) ==
    [success |-> FALSE, error |-> "authorization_failed",
     message |-> message, required_roles |-> required_roles]

GateWrapper_always_invokes(rec, res) ==
    [rec EXCEPT !.pc = "target",
                !.ctx = IF res.ok THEN res.ctx ELSE NoContext,
                !.targetCalls = 1]

GateWrapper_raw_failure(rec, res) ==
    IF ~res.ok
    THEN [rec EXCEPT !.pc = "done", !.outcome = res.error,
                     !.cause = res.error, !.predicate = "none",
                     !.message = Str(res.error)]
    ELSE IF rec.form.kind = "custom" /\ rec.form.check = "raises"
    THEN [rec EXCEPT !.pc = "done", !.ctx = res.ctx,
                     !.outcome = "check raised",
                     !.cause = "check raised", !.predicate = "error",
                     !.message = Str("check raised")]
    ELSE IF rec.form.kind = "custom"
            /\ rec.form.check = "raises_authorization_error"
    THEN [rec EXCEPT !.pc = "done", !.ctx = res.ctx,
                     !.outcome = "AuthorizationError",
                     !.cause = "check raised AuthorizationError",
                     !.predicate = "error",
                     !.required_roles = CheckError.required_roles,
                     !.message = CheckError.message]
    ELSE IF ~GatePasses(rec.form, res.ctx)
    THEN [rec EXCEPT !.pc = "done", !.ctx = res.ctx,
                     !.outcome = "AuthorizationError",
                     !.cause = "denied", !.predicate = "deny",
                     !.required_roles =
                         DeniedRoles(rec.form, res.ctx, rec.order),
                     !.message = DeniedMessage(rec.form, res.ctx, rec.order)]
    ELSE [rec EXCEPT !.pc = "target", !.ctx = res.ctx,
                     !.predicate = "pass", !.targetCalls = 1]

GateWrapper_uninitialised_passes(rec, res) ==
    IF ~res.ok /\ res.error = "RuntimeError"
    THEN [rec EXCEPT !.pc = "target", !.predicate = "pass",
                     !.targetCalls = 1]
    ELSE
    IF ~res.ok
        THEN [rec EXCEPT !.pc = "done", !.outcome = "AuthorizationError",
                         !.cause = res.error, !.predicate = "none",
                         !.message = WrappedMessage(res.error)]
        ELSE IF rec.form.kind = "custom" /\ rec.form.check = "raises"
        THEN [rec EXCEPT !.pc = "done", !.ctx = res.ctx,
                         !.outcome = "AuthorizationError",
                         !.cause = "check raised", !.predicate = "error",
                         !.message = WrappedMessage("check raised")]
        ELSE IF rec.form.kind = "custom"
                /\ rec.form.check = "raises_authorization_error"
        THEN [rec EXCEPT !.pc = "done", !.ctx = res.ctx,
                         !.outcome = "AuthorizationError",
                         !.cause = "check raised AuthorizationError",
                         !.predicate = "error",
                         !.required_roles = CheckError.required_roles,
                         !.message = CheckError.message]
        ELSE IF ~GatePasses(rec.form, res.ctx)
        THEN [rec EXCEPT !.pc = "done", !.ctx = res.ctx,
                         !.outcome = "AuthorizationError",
                         !.cause = "denied", !.predicate = "deny",
                         !.required_roles =
                             DeniedRoles(rec.form, res.ctx, rec.order),
                         !.message =
                             DeniedMessage(rec.form, res.ctx, rec.order)]
        ELSE [rec EXCEPT !.pc = "target", !.ctx = res.ctx,
                         !.predicate = "pass", !.targetCalls = 1]

\* wrapper() of a gate from the return of get_auth_context() to its raise or
\* to `return await func(*args, **kwargs)`, where it awaits the target.
\* res is what get_auth_context() gave: res.ok with res.ctx, or the
\* exception res.error.  An AuthorizationError raised inside the try block,
\* by the gate or by check_func, is re-raised as it is (`except
\* AuthorizationError: raise`); any other exception is wrapped.
GateWrapper(rec, res) ==
    IF ~res.ok
    THEN [rec EXCEPT !.pc = "done", !.outcome = "AuthorizationError",
                     !.cause = res.error, !.predicate = "none",
                     !.message = WrappedMessage(res.error)]
    ELSE IF rec.form.kind = "custom" /\ rec.form.check = "raises"
    THEN [rec EXCEPT !.pc = "done", !.ctx = res.ctx,
                     !.outcome = "AuthorizationError",
                     !.cause = "check raised", !.predicate = "error",
                     !.message = WrappedMessage("check raised")]
    ELSE IF rec.form.kind = "custom"
            /\ rec.form.check = "raises_authorization_error"
    THEN [rec EXCEPT !.pc = "done", !.ctx = res.ctx,
                     !.outcome = "AuthorizationError",
                     !.cause = "check raised AuthorizationError",
                     !.predicate = "error",
                     !.required_roles = CheckError.required_roles,
                     !.message = CheckError.message]
    ELSE IF ~GatePasses(rec.form, res.ctx)
    THEN [rec EXCEPT !.pc = "done", !.ctx = res.ctx,
                     !.outcome = "AuthorizationError",
                     !.cause = "denied", !.predicate = "deny",
                     !.required_roles =
                         DeniedRoles(rec.form, res.ctx, rec.order),
                     !.message = DeniedMessage(rec.form, res.ctx, rec.order)]
    ELSE [rec EXCEPT !.pc = "target", !.ctx = res.ctx,
                     !.predicate = "pass", !.targetCalls = 1]

\* wrapper() of a gate when the awaited target ends: its result is returned,
\* an AuthorizationError it raises is re-raised as it is, any other
\* exception it raises is wrapped (authorization.py 65-71)
TargetEnd(rec, tgt) ==
    CASE tgt = "<raises>" ->
           [rec EXCEPT !.pc = "done", !.targetDid = tgt,
                       !.outcome = "AuthorizationError",
                       !.cause = "target raised",
                       !.message = WrappedMessage("target raised")]
      [] tgt = "<raises AuthorizationError>" ->
           [rec EXCEPT !.pc = "done", !.targetDid = tgt,
                       !.outcome = "AuthorizationError",
                       !.cause = "target raised AuthorizationError",
                       !.required_roles = TargetError.required_roles,
                       !.message = TargetError.message]
      [] OTHER ->
           [rec EXCEPT !.pc = "done", !.targetDid = tgt,
                       !.outcome = "returned", !.result = tgt]

\* the end of exchange_and_get_context with res, and what follows it without
\* an await: the caller of a direct call has its outcome, a gate evaluates
\* its predicate, and a tool that called get_auth_context() itself
\* (targetCalls = 1) returns its result, or the dict it makes of the
\* exception, through the gate
Complete(rec, res) ==
    IF rec.targetCalls = 1
    THEN TargetEnd([rec EXCEPT
                      !.inner = IF res.ok THEN "context" ELSE res.error],
                   IF res.ok THEN "<tool result>" ELSE "<tool error>")
    ELSE IF rec.form.kind \in GateKinds
    THEN GateWrapper(rec, res)
    ELSE IF res.ok
    THEN [rec EXCEPT !.pc = "done", !.outcome = "context", !.ctx = res.ctx]
    ELSE [rec EXCEPT !.pc = "done", !.outcome = res.error,
                     !.cause = res.error]

Ok(ctx) == [ok |-> TRUE, ctx |-> ctx, error |-> Absent]
Raised(error) == [ok |-> FALSE, ctx |-> NoContext, error |-> error]

(***************************************************************************)
(* Checks that wrap no operation: KeycloakClient.has_* on a token          *)
(* (keycloak_client.py 246-306) and AuthorizationHelper.check_* on the     *)
(* outcome res of get_auth_context() (authorization.py 260-312).           *)
(***************************************************************************)
has_role(token, role) == role \in Range(token.roles)

has_resource_role(token, resource, role) ==
    IF token.resource_access[resource] = NoClaim
    THEN FALSE
    ELSE LET ra == token.resource_access[resource]
             resource_roles == IF ra.has_roles THEN ra.roles ELSE <<>>
         IN role \in Range(resource_roles)

has_any_role(token, roles) ==
    \E i \in DOMAIN roles : roles[i] \in Range(token.roles)

has_all_roles(token, roles) ==
    \A i \in DOMAIN roles : roles[i] \in Range(token.roles)

\* `except Exception: return False`
check_role(res, role) ==
    IF ~res.ok THEN FALSE ELSE role \in Range(res.ctx.keycloak_roles)

check_any_role(res, roles) ==
    IF ~res.ok THEN FALSE
    ELSE Range(res.ctx.keycloak_roles) \cap Range(roles) # {}

check_all_roles_nonempty(res, roles) ==
    IF ~res.ok THEN FALSE
    ELSE roles # <<>> /\ Range(roles) \subseteq Range(res.ctx.keycloak_roles)

check_all_roles(res, roles) ==
    IF ~res.ok THEN FALSE
    ELSE Range(roles) \subseteq Range(res.ctx.keycloak_roles)

\* authorization.py 314-327
get_user_roles(res) ==
    IF ~res.ok THEN <<>> ELSE res.ctx.keycloak_roles

\* the dict {}
EmptyInfo == [k \in {} |-> Absent]

\* AuthContext.email, token_exchange.py 42-45:
\* self.entra_email or self.keycloak_token.email or ""
email(ctx) ==
    IF Truthy(ctx.entra_email) THEN ctx.entra_email
    ELSE IF Truthy(ctx.keycloak_token.email) THEN ctx.keycloak_token.email
    ELSE ""

get_user_info_unguarded(res) ==
    IF ~res.ok
    THEN [user_id |-> Absent, email |-> Absent, entra_id |-> Absent,
          keycloak_id |-> Absent, roles |-> <<>>]
    ELSE [user_id |-> res.ctx.entra_user_id,
          email |-> email(res.ctx),
          entra_id |-> res.ctx.entra_user_id,
          keycloak_id |-> res.ctx.keycloak_user_id,
          roles |-> res.ctx.keycloak_roles]

\* authorization.py 329-348
get_user_info(res) ==
    IF ~res.ok
    THEN EmptyInfo
    ELSE [user_id |-> res.ctx.entra_user_id,
          email |-> email(res.ctx),
          entra_id |-> res.ctx.entra_user_id,
          keycloak_id |-> res.ctx.keycloak_user_id,
          roles |-> res.ctx.keycloak_roles]

(***************************************************************************)
(* TokenExchangeService.exchange_and_get_context: token_exchange.py 80-163.*)
(* The code between two awaits runs without interruption; the awaits are   *)
(* the refresh and the exchange call of the client.                        *)
(***************************************************************************)
\* token_exchange.py 121-139: what the call does with the cache's answer
CacheDecision(tok, time) ==
    IF tok # NoToken
    THEN IF needs_refresh(tok, time) /\ Truthy(tok.refresh_token)
         THEN "refresh"
         ELSE "use"
    ELSE "exchange"

\* exchange_and_get_context from its entry to its first await, or to its
\* end, for the call rec0 on the cache cch: the call's record and the cache
\* it leaves.  A service built with cache_tokens=False has no cache: the
\* call goes to the exchange.
RunToFirstAwait(rec0, cch) ==
    LET src == rec0.src
        r == ResolveSource(src)
        uid == entra_user_id(src.p)
        tok == cache_get_value(cch, uid, now)
        rec1 == [rec0 EXCEPT !.uid = uid, !.before = cch[uid],
                             !.readTok = tok, !.readAt = now]
        what == CacheDecision(tok, now)
    IN IF ~service
       THEN [rec |-> Complete(rec0, Raised("RuntimeError")), cache |-> cch]
       ELSE IF ~r.ok
       THEN [rec |-> Complete(rec0, Raised(r.error)), cache |-> cch]
       ELSE IF ~cache_tokens
       THEN [rec |-> [rec0 EXCEPT !.uid = uid, !.before = NoToken,
                                  !.readTok = NoToken, !.readAt = now,
                                  !.pc = "exchanging", !.nExchange = @ + 1],
             cache |-> cch]
       ELSE [rec |->
                CASE what = "refresh" ->
                       [rec1 EXCEPT !.pc = "refreshing", !.nRefresh = @ + 1]
                  [] what = "exchange" ->
                       [rec1 EXCEPT !.pc = "exchanging", !.nExchange = @ + 1]
                  [] OTHER ->
                       Complete(rec1, Ok(AuthContext(src, tok))),
             cache |-> cache_get_store(cch, uid, now)]

\* a gate that has passed calls its target (`await func(*args, **kwargs)`,
\* authorization.py 65), which runs at once to its first await: the body of
\* a tool calls get_auth_context() (authorized_tools.py 53), which reads
\* the cache again and may start a refresh or an exchange of its own, or
\* gives the context at once, and then the tool returns
EnterTarget(rec, cch) ==
    IF rec.pc = "target" /\ rec.body = "tool" /\ rec.targetReads = 0
    THEN RunToFirstAwait([rec EXCEPT !.targetReads = 1], cch)
    ELSE [rec |-> rec, cache |-> cch]

\* call c goes on from rec on the cache cch up to its next await
Resume(c, rec, cch) ==
    LET s == EnterTarget(rec, cch)
    IN /\ calls' = [calls EXCEPT ![c] = s.rec]
       /\ cache' = s.cache

\* a call starts and runs to its first await, or to its end: a direct call
\* of exchange_and_get_context on the service, get_auth_context(), or the
\* wrapper of a gate (authorization.py 50-71) up to the await of its target
GetContextStart(c, form, src) ==
    /\ calls[c].pc \in {"idle", "done"}
    /\ \A d \in Slots \ {c} : calls[d].pc # "done"
    /\ form.kind = "direct" => service
    /\ UNCHANGED <<config, cache_tokens, now, service, serial, lastOp, evicted>>
    /\ \E order \in OrdersFor(form), body \in TargetBodies(form) :
          LET r == ResolveSource(src)
              uid == entra_user_id(src.p)
              last == calls[c]
              follows == /\ last.pc = "done" /\ last.outcome = "context"
                         /\ service /\ r.ok /\ last.uid = uid
              rec0 == [IdleCall EXCEPT
                         !.form = form, !.src = src, !.order = order,
                         !.body = body,
                         !.prev = IF follows THEN last.ctx.keycloak_token
                                  ELSE NoToken,
                         !.prevHit = follows /\ last.readTok # NoToken
                                     /\ last.nRefresh = 0
                                     /\ last.nExchange = 0]
              s == RunToFirstAwait(rec0, cache)
          IN Resume(c, s.rec, s.cache)

\* the awaited target of a gated call, a plain coroutine, ends
TargetEnds(c, tgt) ==
    /\ calls[c].pc = "target"
    /\ calls' = [calls EXCEPT ![c] = TargetEnd(calls[c], tgt)]
    /\ UNCHANGED <<config, cache_tokens, now, service, cache, serial, lastOp,
                   evicted>>

\* the realm answers the refresh call with a token response
\* (keycloak_client.py 175-186): the response is parsed inside
\* `async with httpx.AsyncClient`, _parse_token_response stamps the token
\* with the clock (208), and the exit of the `async with` is awaited before
\* refresh_token returns: the parsed token is held in `got` meanwhile
RefreshAnswered(c, shape) ==
    /\ calls[c].pc = "refreshing"
    /\ serial < MaxIssued
    /\ LET rec == calls[c]
           resp == TokenResponse(rec.readTok.sub, serial + 1, shape)
       IN calls' = [calls EXCEPT ![c] =
                [rec EXCEPT !.pc = "refreshed",
                            !.got = parse_token_response(resp, now)]]
    /\ serial' = serial + 1
    /\ UNCHANGED <<config, cache_tokens, now, service, cache, lastOp, evicted>>

RefreshSucceeds_then_exchanges(c) ==
    /\ calls[c].pc = "refreshed"
    /\ LET rec == calls[c]
       IN /\ cache' = cache_set(cache, rec.uid, rec.got)
          /\ calls' = [calls EXCEPT ![c] =
                [rec EXCEPT !.nWrites = @ + 1, !.okRefresh = @ + 1,
                            !.pc = "exchanging", !.nExchange = @ + 1]]
    /\ UNCHANGED <<config, cache_tokens, now, service, serial, lastOp, evicted>>

RefreshSucceeds_no_store(c) ==
    /\ calls[c].pc = "refreshed"
    /\ LET rec == calls[c]
       IN Resume(c, Complete([rec EXCEPT !.okRefresh = @ + 1],
                             Ok(AuthContext(rec.src, rec.got))),
                 cache)
    /\ UNCHANGED <<config, cache_tokens, now, service, serial, lastOp, evicted>>

\* refresh_token returns the token it parsed: it is stored and the context
\* is built with no await in between (token_exchange.py 128-131, 147-163)
RefreshSucceeds(c) ==
    /\ calls[c].pc = "refreshed"
    /\ LET rec == calls[c]
       IN Resume(c, Complete([rec EXCEPT !.nWrites = @ + 1,
                                         !.okRefresh = @ + 1,
                                         !.replaced = cache[rec.uid]],
                             Ok(AuthContext(rec.src, rec.got))),
                 cache_set(cache, rec.uid, rec.got))
    /\ UNCHANGED <<config, cache_tokens, now, service, serial, lastOp, evicted>>

RefreshFails_propagates(c) ==
    /\ calls[c].pc = "refreshing"
    /\ calls' = [calls EXCEPT
                   ![c] = Complete(calls[c], Raised("RefreshFailed"))]
    /\ UNCHANGED <<config, cache_tokens, now, service, cache, serial, lastOp,
                   evicted>>

RefreshFails_retries(c) ==
    /\ calls[c].pc = "refreshing"
    /\ calls' = IF calls[c].nRefresh < 2
                THEN [calls EXCEPT ![c].nRefresh = @ + 1]
                ELSE [calls EXCEPT ![c].pc = "exchanging",
                                   ![c].nExchange = @ + 1]
    /\ UNCHANGED <<config, cache_tokens, now, service, cache, serial, lastOp,
                   evicted>>

\* the refresh call raises: token_exchange.py 132-134, then 139-141
RefreshFails(c) ==
    /\ calls[c].pc = "refreshing"
    /\ calls' = [calls EXCEPT ![c].pc = "exchanging", ![c].nExchange = @ + 1]
    /\ UNCHANGED <<config, cache_tokens, now, service, cache, serial, lastOp,
                   evicted>>

\* the realm answers the exchange call with a token response
\* (keycloak_client.py 131-143): parsed and stamped with the clock inside
\* `async with httpx.AsyncClient`, whose exit is awaited before
\* exchange_token returns
ExchangeAnswered(c, shape) ==
    /\ calls[c].pc = "exchanging"
    /\ serial < MaxIssued
    /\ LET rec == calls[c]
           resp == TokenResponse(RealmSubject(rec.src.p.token), serial + 1,
                                 shape)
       IN calls' = [calls EXCEPT ![c] =
                [rec EXCEPT !.pc = "exchanged",
                            !.got = parse_token_response(resp, now)]]
    /\ serial' = serial + 1
    /\ UNCHANGED <<config, cache_tokens, now, service, cache, lastOp, evicted>>

\* exchange_token returns the token it parsed: token_exchange.py 141-145,
\* then 147-163; the token is stored if the service has a cache
ExchangeSucceeds(c) ==
    /\ calls[c].pc = "exchanged"
    /\ LET rec == calls[c]
       IN IF cache_tokens
          THEN Resume(c, Complete([rec EXCEPT !.nWrites = @ + 1,
                                              !.okExchange = @ + 1,
                                              !.replaced = cache[rec.uid]],
                                  Ok(AuthContext(rec.src, rec.got))),
                      cache_set(cache, rec.uid, rec.got))
          ELSE Resume(c, Complete([rec EXCEPT !.okExchange = @ + 1],
                                  Ok(AuthContext(rec.src, rec.got))),
                      cache)
    /\ UNCHANGED <<config, cache_tokens, now, service, serial, lastOp, evicted>>

ExchangeFails_clears(c) ==
    /\ calls[c].pc = "exchanging"
    /\ calls' = [calls EXCEPT
                   ![c] = Complete(calls[c], Raised("ExchangeFailed"))]
    /\ cache' = cache_delete(cache, calls[c].uid)
    /\ UNCHANGED <<config, cache_tokens, now, service, serial, lastOp, evicted>>

ExchangeFails_serves_cached(c) ==
    /\ calls[c].pc = "exchanging"
    /\ Resume(c,
              IF calls[c].readTok # NoToken
              THEN Complete(calls[c],
                            Ok(AuthContext(calls[c].src, calls[c].readTok)))
              ELSE Complete(calls[c], Raised("ExchangeFailed")),
              cache)
    /\ UNCHANGED <<config, cache_tokens, now, service, serial, lastOp, evicted>>

\* the exchange call raises (an httpx error, ExchangeFailed here):
\* keycloak_client.py 145-152; nothing in the orchestrator catches it
ExchangeFails(c) ==
    /\ calls[c].pc = "exchanging"
    /\ calls' = [calls EXCEPT
                   ![c] = Complete(calls[c], Raised("ExchangeFailed"))]
    /\ UNCHANGED <<config, cache_tokens, now, service, cache, serial, lastOp,
                   evicted>>

Cancel_as_failure(c) ==
    /\ calls[c].pc \in {"refreshing", "refreshed", "exchanging", "exchanged",
                       "target"}
    /\ calls' = [calls EXCEPT ![c] =
          IF calls[c].pc = "refreshing"
          THEN [@ EXCEPT !.pc = "exchanging", !.nExchange = @ + 1,
                         !.cause = "CancelledError"]
          ELSE [@ EXCEPT !.pc = "done", !.outcome = "CancelledError",
                         !.cause = "CancelledError"]]
    /\ UNCHANGED <<config, cache_tokens, now, service, cache, serial, lastOp,
                   evicted>>

\* the task is cancelled while it awaits the refresh call, the exchange call
\* (before the realm has answered, or after, while the client is closed)
\* or the target: asyncio.CancelledError is raised at the await
\* (token_exchange.py 128, 141; authorization.py 65); it is a BaseException,
\* so neither `except Exception` at 132 nor the one of a gate catches it
Cancel(c) ==
    /\ calls[c].pc \in {"refreshing", "refreshed", "exchanging", "exchanged",
                       "target"}
    /\ calls' = [calls EXCEPT ![c] =
          [@ EXCEPT !.pc = "done", !.outcome = "CancelledError",
                    !.cause = "CancelledError"]]
    /\ UNCHANGED <<config, cache_tokens, now, service, cache, serial, lastOp,
                   evicted>>

(***************************************************************************)
(* ServerConfig and its validate(): config.py 130-261.  Only the fields    *)
(* that validate() reads are kept.                                         *)
(***************************************************************************)
NoAzureAuth == [absent |-> TRUE]

AzureAuthConfigs ==
    {NoAzureAuth,
     [base_url |-> "http://localhost:8000", jwt_signing_key |-> Absent],
     [base_url |-> "https://mcp.example.com", jwt_signing_key |-> "k"]}

Environments == {"development", "production"}
Ports == {-1, 0, 1, 65535, 65536}
Transports == {"http", "sse", "stdio", "invalid"}

ServerConfigs ==
    [environment : Environments,
     enable_auth : BOOLEAN,
     azure_auth : AzureAuthConfigs,
     redis_host : {Absent, "redis"},
     storage_encryption_key : {Absent, "key"},
     port : Ports,
     transport : Transports]

NoServerConfig == [cfg |-> [absent |-> TRUE], outcome |-> "none"]

\* config.py 226-228
is_production(cfg) == cfg.environment = "production"

validate_port_below_max(cfg) ==
    IF /\ is_production(cfg)
       /\ cfg.enable_auth /\ cfg.azure_auth = NoAzureAuth
    THEN "Authentication must be configured for production environment"
    ELSE IF /\ is_production(cfg)
            /\ cfg.enable_auth /\ cfg.azure_auth # NoAzureAuth
            /\ Truthy(cfg.redis_host)
            /\ ~Truthy(cfg.storage_encryption_key)
    THEN "STORAGE_ENCRYPTION_KEY is required when using Redis"
    ELSE IF cfg.port < 1 \/ cfg.port >= 65535
    THEN "Invalid port number"
    ELSE IF cfg.transport \notin {"http", "sse", "stdio"}
    THEN "Invalid transport"
    ELSE "ok"

\* config.py 235-261: the ValueError raised, or "ok" when it returns; the
\* warnings it logs change nothing
validate(cfg) ==
    IF /\ is_production(cfg)
       /\ cfg.enable_auth /\ cfg.azure_auth = NoAzureAuth
    THEN "Authentication must be configured for production environment"
    ELSE IF /\ is_production(cfg)
            /\ cfg.enable_auth /\ cfg.azure_auth # NoAzureAuth
            /\ Truthy(cfg.redis_host)
            /\ ~Truthy(cfg.storage_encryption_key)
    THEN "STORAGE_ENCRYPTION_KEY is required when using Redis"
    ELSE IF cfg.port < 1 \/ cfg.port > 65535
    THEN "Invalid port number"
    ELSE IF cfg.transport \notin {"http", "sse", "stdio"}
    THEN "Invalid transport"
    ELSE "ok"

\* ServerConfig(...): a configuration is constructed
NewServerConfig(cfg) ==
    /\ config' = [cfg |-> cfg, outcome |-> "none"]
    /\ UNCHANGED <<cache_tokens, now, service, cache, serial, calls, lastOp,
                   evicted>>

\* config.validate()
Validate ==
    /\ config # NoServerConfig
    /\ config' = [config EXCEPT !.outcome = validate(config.cfg)]
    /\ UNCHANGED <<cache_tokens, now, service, cache, serial, calls, lastOp,
                   evicted>>

(***************************************************************************)
(* The service's other operations, the cache used directly, the clock.     *)
(***************************************************************************)
\* the last direct cache operation op(u) at time at:
\*   token       the token a put stored
\*   found       the entry a get found in the dict
\*   value       what a get returned
\*   prevPut     for a get: the token put(u, .) stored, if that was the
\*               operation just before it
\*   wasEvicted  for a get: an earlier get evicted u's entry, no put(u) since
NoOp == [op |-> "none", u |-> NoUser, token |-> NoToken, found |-> NoToken,
         value |-> NoToken, prevPut |-> NoToken, wasEvicted |-> FALSE,
         at |-> 0]

\* TokenExchangeService(keycloak_client, cache_tokens), token_exchange.py
\* 60-78: a new service, with a new, empty cache if cache_tokens.  The
\* model has one service, on which the calls are made.
NewTokenExchangeService(flag) ==
    /\ service' = TRUE
    /\ cache_tokens' = flag
    /\ cache' = EmptyCache
    /\ lastOp' = NoOp
    /\ evicted' = {}
    /\ UNCHANGED <<config, now, serial, calls>>

\* initialize_token_exchange_service, token_exchange.py 199-210: the global
\* service is a new TokenExchangeService(keycloak_client), cache_tokens
\* keeping its default
initialize_token_exchange_service == NewTokenExchangeService(TRUE)

\* TokenExchangeService.invalidate_cache -> KeycloakTokenCache.delete, if
\* the service has a cache
invalidate_cache(u) ==
    /\ service
    /\ cache' = IF cache_tokens THEN cache_delete(cache, u) ELSE cache
    /\ lastOp' = [NoOp EXCEPT !.op = "delete", !.u = u, !.at = now]
    /\ UNCHANGED <<config, cache_tokens, now, service, serial, calls, evicted>>

\* TokenExchangeService.clear_cache -> KeycloakTokenCache.clear, if the
\* service has a cache
clear_cache ==
    /\ service
    /\ cache' = IF cache_tokens THEN cache_clear(cache) ELSE cache
    /\ lastOp' = [NoOp EXCEPT !.op = "clear", !.at = now]
    /\ UNCHANGED <<config, cache_tokens, now, service, serial, calls, evicted>>

\* KeycloakTokenCache.get called directly
CacheGet(u) ==
    /\ service /\ cache_tokens
    /\ cache' = cache_get_store(cache, u, now)
    /\ lastOp' = [NoOp EXCEPT
                    !.op = "get", !.u = u, !.at = now,
                    !.found = cache[u],
                    !.value = cache_get_value(cache, u, now),
                    !.prevPut = IF lastOp.op = "put" /\ lastOp.u = u
                                THEN lastOp.token ELSE NoToken,
                    !.wasEvicted = u \in evicted]
    /\ evicted' = IF cache[u] # NoToken /\ cache'[u] = NoToken
                  THEN evicted \cup {u}
                  ELSE evicted
    /\ UNCHANGED <<config, cache_tokens, now, service, serial, calls>>

\* KeycloakTokenCache.set called directly with a token the client has just
\* parsed from a response
CachePut(u, p, shape) ==
    /\ service /\ cache_tokens
    /\ serial < MaxIssued
    /\ entra_user_id(p) = u
    /\ LET resp == TokenResponse(RealmSubject(p.token), serial + 1, shape)
           token == parse_token_response(resp, now)
       IN /\ cache' = cache_set(cache, u, token)
          /\ lastOp' = [NoOp EXCEPT !.op = "put", !.u = u, !.at = now,
                                    !.token = token]
    /\ evicted' = evicted \ {u}
    /\ serial' = serial + 1
    /\ UNCHANGED <<config, cache_tokens, now, service, calls>>

\* the caller takes the result of a completed call
Return(c) ==
    /\ calls[c].pc = "done"
    /\ calls' = [calls EXCEPT ![c] = IdleCall]
    /\ UNCHANGED <<config, cache_tokens, now, service, cache, serial, lastOp,
                   evicted>>

\* time passes; a completed call is handed to its caller at once
Tick ==
    /\ \A c \in Slots : calls[c].pc # "done"
    /\ \E d \in TickSteps : now + d <= MaxTime /\ now' = now + d
    /\ UNCHANGED <<config, cache_tokens, service, cache, serial, calls, lastOp,
                   evicted>>

Init ==
    /\ now = 0
    /\ service = FALSE
    /\ cache_tokens = TRUE
    /\ cache = EmptyCache
    /\ serial = 0
    /\ calls = [c \in Slots |-> IdleCall]
    /\ lastOp = NoOp
    /\ evicted = {}
    /\ config = NoServerConfig

(***************************************************************************)
(* Spec: the orchestrator called directly, one call at a time.  Nothing    *)
(* but the clock moves while a call awaits the realm.                      *)
(***************************************************************************)
SpecTokens ==
    {p \in PrimaryTokens : p.token = "p1"}

CallInputs ==
    (DirectForms \X ({src \in ArgSources : src.p \in SpecTokens \cup {Garbage}}
                     \cup {src \in AmbientSources : src.p = AmbientRaises}))
    \cup (ContextForms \X {src \in AmbientSources :
                              src.p \in SpecTokens \cup {AmbientRaises}})

Quiescent == \A c \in Slots : calls[c].pc = "idle"

\* the steps of call c after its start, the realm answering with one of
\* shapes
CallSteps(c, shapes) ==
    \/ \E shape \in shapes : RefreshAnswered(c, shape)
    \/ RefreshSucceeds(c)
    \/ RefreshFails(c)
    \/ \E shape \in shapes : ExchangeAnswered(c, shape)
    \/ ExchangeSucceeds(c)
    \/ ExchangeFails(c)
    \/ Return(c)

\* one call at a time on slot c, drawn from inputs, the realm answering
\* with one of shapes
SeqCalls(c, inputs, shapes) ==
    \/ \E in \in inputs :
          /\ \A d \in Slots \ {c} : calls[d].pc = "idle"
          /\ GetContextStart(c, in[1], in[2])
    \/ CallSteps(c, shapes)

\* the same for calls through gates, each made after the caller has taken
\* the result of the one before.  The target is a tool of
\* authorized_tools.py, whose body calls get_auth_context() in the step in
\* which the gate passes and returns when it has the context or its error,
\* or a plain coroutine that the gate awaits and that ends in one of
\* TargetOutcomes.
GatedCalls(c, inputs, shapes) ==
    \/ \E in \in inputs :
          /\ Quiescent
          /\ GetContextStart(c, in[1], in[2])
    \/ CallSteps(c, shapes)
    \/ \E tgt \in TargetOutcomes : TargetEnds(c, tgt)

ServiceOps ==
    \/ Quiescent /\ initialize_token_exchange_service
    \/ \E u \in UserIds : Quiescent /\ invalidate_cache(u)
    \/ Quiescent /\ clear_cache

Next ==
    \/ Tick
    \/ \E c \in SeqSlots : SeqCalls(c, CallInputs, ResponseShapes)
    \/ ServiceOps

Spec == Init /\ [][Next]_vars

(***************************************************************************)
(* SpecGate: gated operations, one call at a time, for three principals,   *)
(* all within one instant.                                                 *)
(***************************************************************************)
GateTokens ==
    {p \in PrimaryTokens : p.token \in {"p1", "p2", "p5"}}

GateInputs ==
    (RoleForms \cup AnyForms \cup AllForms \cup ResourceForms \cup CustomForms)
    \X {src \in AmbientSources : src.p \in GateTokens \cup {AmbientRaises}}

GateShapes ==
    {[refresh_token |-> "rt", expires_in |-> <<>>],
     [refresh_token |-> Absent, expires_in |-> <<400>>]}

NextGate ==
    \/ \E c \in SeqSlots : GatedCalls(c, GateInputs, GateShapes)
    \/ Quiescent /\ initialize_token_exchange_service

SpecGate == Init /\ [][NextGate]_vars

(***************************************************************************)
(* SpecOutage: one principal calls operations behind gates of every kind   *)
(* while the realm may fail, time passes, and the principal's cache entry  *)
(* may be invalidated while a call awaits the realm or its target.         *)
(***************************************************************************)
OutageForms ==
    RoleForms \cup AnyForms \cup AllForms \cup ResourceForms
    \cup {Form("custom", <<>>, Absent, k) : k \in {"deny_all", "is_u1"}}

OutageInputs ==
    OutageForms \X {src \in AmbientSources : src.p \in SpecTokens}

OutageUsers == {entra_user_id(in[2].p) : in \in OutageInputs}

NextOutage ==
    \/ Tick
    \/ \E c \in SeqSlots : GatedCalls(c, OutageInputs, GateShapes)
    \/ \E u \in OutageUsers :
          (\A c \in Slots : calls[c].pc # "done") /\ invalidate_cache(u)
    \/ Quiescent /\ initialize_token_exchange_service

SpecOutage == Init /\ [][NextOutage]_vars

(***************************************************************************)
(* SpecAmbient: calls that pass no primary token, so that it is taken from *)
(* the request context, which may raise or hold no token; and, next to     *)
(* them, calls that pass it.                                               *)
(***************************************************************************)
AmbientInputs ==
    ((DirectForms \cup ContextForms)
        \X {src \in AmbientSources : src.p \in {AmbientRaises, AmbientNone}})
    \cup (DirectForms \X {src \in ArgSources : src.p \in SpecTokens})

NextAmbient ==
    \/ \E c \in SeqSlots : SeqCalls(c, AmbientInputs, GateShapes)
    \/ Quiescent /\ initialize_token_exchange_service

SpecAmbient == Init /\ [][NextAmbient]_vars

(***************************************************************************)
(* SpecIsolation: four principals call the orchestrator one at a time,     *)
(* each with its own primary token; two of the tokens have neither an oid  *)
(* nor a sub claim, and one has a sub claim that is null.                  *)
(***************************************************************************)
IsolationTokens ==
    {p \in PrimaryTokens : p.token \in {"p2", "p3", "p4", "p5"}}

IsolationInputs ==
    DirectForms \X {src \in ArgSources : src.p \in IsolationTokens}

NextIsolation ==
    \/ \E c \in SeqSlots : SeqCalls(c, IsolationInputs, GateShapes)
    \/ Quiescent /\ initialize_token_exchange_service

SpecIsolation == Init /\ [][NextIsolation]_vars

(***************************************************************************)
(* SpecIdentity: the orchestrator called one call at a time with primary   *)
(* tokens of every shape of the oid claim: a value, no such claim, the     *)
(* empty string, and null.                                                 *)
(***************************************************************************)
IdentityTokens ==
    {p \in PrimaryTokens : p.token \in {"p1", "p2", "p3", "p5", "p6", "p7"}}

IdentityInputs ==
    (DirectForms \X {src \in ArgSources : src.p \in IdentityTokens})
    \cup (ContextForms \X {src \in AmbientSources : src.p \in IdentityTokens})

NextIdentity ==
    \/ \E c \in SeqSlots : SeqCalls(c, IdentityInputs, GateShapes)
    \/ Quiescent /\ initialize_token_exchange_service

SpecIdentity == Init /\ [][NextIdentity]_vars

(***************************************************************************)
(* SpecTermination: the calls of SpecAmbient, every client call that is    *)
(* awaited eventually returning or failing.                                *)
(***************************************************************************)
ClientResponds(c) ==
    \/ \E shape \in GateShapes : RefreshAnswered(c, shape)
    \/ RefreshSucceeds(c)
    \/ RefreshFails(c)
    \/ \E shape \in GateShapes : ExchangeAnswered(c, shape)
    \/ ExchangeSucceeds(c)
    \/ ExchangeFails(c)

SpecTermination ==
    /\ Init /\ [][NextAmbient]_vars
    /\ \A c \in SeqSlots : WF_vars(ClientResponds(c))

(***************************************************************************)
(* SpecConc: two tasks call the orchestrator for the same user at the same *)
(* time.  A task runs without interruption between two awaits; while it    *)
(* awaits the realm, and after the answer the closing of the client, the   *)
(* other task runs, and it may be cancelled.                               *)
(***************************************************************************)
ConcInputs ==
    DirectForms \X {src \in ArgSources : src.p \in SpecTokens}

\* no other task has a result its caller has yet to take
OthersNotDone(c) == \A d \in Slots \ {c} : calls[d].pc # "done"

ConcCalls(c, inputs, shapes) ==
    \/ \E in \in inputs : GetContextStart(c, in[1], in[2])
    \/ \E shape \in shapes :
          OthersNotDone(c) /\ RefreshAnswered(c, shape)
    \/ OthersNotDone(c) /\ RefreshSucceeds(c)
    \/ OthersNotDone(c) /\ RefreshFails(c)
    \/ \E shape \in shapes :
          OthersNotDone(c) /\ ExchangeAnswered(c, shape)
    \/ OthersNotDone(c) /\ ExchangeSucceeds(c)
    \/ OthersNotDone(c) /\ ExchangeFails(c)
    \/ OthersNotDone(c) /\ Cancel(c)
    \/ Return(c)

NextConc ==
    \/ \E c \in Slots : ConcCalls(c, ConcInputs, ResponseShapes)
    \/ Quiescent /\ initialize_token_exchange_service

SpecConc == Init /\ [][NextConc]_vars

(***************************************************************************)
(* SpecConfig: server configurations are constructed and validated.        *)
(***************************************************************************)
NextConfig ==
    \/ \E cfg \in ServerConfigs : NewServerConfig(cfg)
    \/ Validate

SpecConfig == Init /\ [][NextConfig]_vars

(***************************************************************************)
(* SpecInvalidate: two tasks call the orchestrator for the same user while *)
(* the user's entry is invalidated or the cache is cleared, also while a   *)
(* task awaits the realm.                                                  *)
(***************************************************************************)
NoneDone == \A c \in Slots : calls[c].pc # "done"

InvalidateUsers == {entra_user_id(src[2].p) : src \in ConcInputs}

NextInvalidate ==
    \/ \E c \in Slots : ConcCalls(c, ConcInputs, GateShapes)
    \/ \E u \in InvalidateUsers : NoneDone /\ invalidate_cache(u)
    \/ NoneDone /\ clear_cache
    \/ Quiescent /\ initialize_token_exchange_service

SpecInvalidate == Init /\ [][NextInvalidate]_vars

(***************************************************************************)
(* SpecCaching: direct calls, one at a time, on a service that is built    *)
(* with or without a cache.                                                *)
(***************************************************************************)
NextCaching ==
    \/ Tick
    \/ \E c \in SeqSlots : SeqCalls(c, ConcInputs, ResponseShapes)
    \/ \E flag \in BOOLEAN : Quiescent /\ NewTokenExchangeService(flag)
    \/ \E u \in InvalidateUsers : Quiescent /\ invalidate_cache(u)
    \/ Quiescent /\ clear_cache

SpecCaching == Init /\ [][NextCaching]_vars

(***************************************************************************)
(* SpecCache: the token cache used directly, for two users.                *)
(***************************************************************************)
CacheTokens ==
    {p \in PrimaryTokens : p.token \in {"p1", "p2"}}

CacheUsers == {entra_user_id(p) : p \in CacheTokens}

NextCache ==
    \/ Tick
    \/ initialize_token_exchange_service
    \/ \E u \in CacheUsers, p \in CacheTokens, shape \in ResponseShapes :
          CachePut(u, p, shape)
    \/ \E u \in CacheUsers : CacheGet(u)
    \/ \E u \in CacheUsers : invalidate_cache(u)
    \/ clear_cache

SpecCache == Init /\ [][NextCache]_vars

(***************************************************************************)
(* Properties.                                                             *)
(***************************************************************************)
\* the call's exchange call has raised
ExchangeFailed(r) == r.pc = "done" /\ r.nExchange > r.okExchange

\* the call's refresh call has raised
RefreshFailed(r) ==
    r.pc \notin {"refreshing", "refreshed"} /\ r.nRefresh > r.okRefresh

\* the cache's get returned a token that was within 300 s of its expiry
ReadStale(r) ==
    r.readTok # NoToken /\ r.readAt >= r.readTok.expires_at - 300

\* C1, as stated: a getContext call makes at most one network call, one
\* exchange or one refresh, never both, whatever the cache state and the
\* outcome of the call.
C1_NeverBoth ==
    \A c \in Slots : calls[c].nRefresh + calls[c].nExchange <= 1

\* C1, amended: a getContext call makes at most one refresh call and at most
\* one exchange call, at most one of the two returns a token, the cache is
\* written once per token returned, and the call makes both a refresh and an
\* exchange only when the refresh has failed.
C1_AtMostOneSucceeds ==
    \A c \in Slots :
        LET r == calls[c]
        IN /\ r.nRefresh <= 1
           /\ r.nExchange <= 1
           /\ r.okRefresh + r.okExchange <= 1
           /\ r.nWrites = r.okRefresh + r.okExchange
           /\ (r.nRefresh = 1 /\ r.nExchange = 1) =>
                 (r.pc \notin {"refreshing", "refreshed"} /\ r.okRefresh = 0)

\* a call whose refresh failed and whose fallback exchange returned a token
C1_Witness ==
    \E c \in Slots :
        /\ calls[c].pc = "done"
        /\ calls[c].nRefresh = 1 /\ calls[c].nExchange = 1
        /\ calls[c].okExchange = 1

\* C2: an expired entry is never served: the cache's get never returns a
\* token that is expired at the time of the read, and a context whose token
\* comes from the cache embeds a token that was not expired when it was read.
C2_NeverServesExpired ==
    \A c \in Slots :
        LET r == calls[c]
        IN /\ r.readTok # NoToken => r.readAt < r.readTok.expires_at
           /\ (r.pc = "done" /\ r.ctx # NoContext /\ r.nWrites = 0) =>
                 /\ r.ctx.keycloak_token = r.readTok
                 /\ r.readAt < r.ctx.keycloak_token.expires_at

\* a call found an expired entry: the get returned nothing and evicted it
C2_Witness ==
    \E c \in Slots :
        /\ calls[c].pc = "exchanging"
        /\ calls[c].before # NoToken
        /\ calls[c].readAt >= calls[c].before.expires_at
        /\ calls[c].readTok = NoToken
        /\ cache[calls[c].uid] = NoToken

\* C3, as stated: when the cached token is stale and has no refresh token,
\* getContext does not reuse it: it calls exchange, stores the new token
\* and returns a context embedding the new token.
C3_StaleWithoutRefreshTokenExchanges ==
    \A c \in Slots :
        LET r == calls[c]
        IN (r.pc = "done" /\ ReadStale(r) /\ ~Truthy(r.readTok.refresh_token))
           => /\ r.nExchange = 1
              /\ r.outcome = "context" =>
                    /\ r.ctx.keycloak_token # r.readTok
                    /\ cache[r.uid] = r.ctx.keycloak_token

\* C4, as stated: when the exchange call fails, the user's cache entry after
\* the call is the entry before the call, whatever that entry was.
C4_EntryUnchanged ==
    \A c \in Slots :
        ExchangeFailed(calls[c]) => cache[calls[c].uid] = calls[c].before

\* C4, amended: when the exchange call fails, the call has written nothing,
\* and the user's cache entry after the call is the entry before the call,
\* except that an entry that was expired when the call read it is gone.
C4_EntryUnchangedOrEvicted ==
    \A c \in Slots :
        LET r == calls[c]
        IN ExchangeFailed(r) =>
              /\ r.nWrites = 0
              /\ cache[r.uid] =
                    IF r.before # NoToken /\ r.readAt >= r.before.expires_at
                    THEN NoToken
                    ELSE r.before

\* the exchange failed for a user whose entry was present but expired
C4_Witness ==
    \E c \in Slots :
        /\ ExchangeFailed(calls[c])
        /\ calls[c].before # NoToken
        /\ calls[c].readAt >= calls[c].before.expires_at
        /\ cache[calls[c].uid] = NoToken

\* C5: when the exchange call fails, getContext fails with that failure: no
\* context is returned, there has been one exchange call and no call that
\* returned a token, and the call has written nothing to the cache.
C5_ExchangeFailurePropagates ==
    \A c \in Slots :
        LET r == calls[c]
        IN ExchangeFailed(r) =>
              /\ r.outcome = "ExchangeFailed"
              /\ r.ctx = NoContext
              /\ r.nExchange = 1 /\ r.nRefresh <= 1
              /\ r.okExchange = 0 /\ r.okRefresh = 0
              /\ r.nWrites = 0

\* the exchange failed while a stale token was in the cache
C5_Witness ==
    \E c \in Slots :
        /\ ExchangeFailed(calls[c])
        /\ calls[c].readTok # NoToken
        /\ calls[c].nRefresh = 1

\* C6: when the cached token is not expired, needs a refresh and has a
\* refresh token, getContext calls refresh; when that call returns a token,
\* there has been one refresh and no exchange, the cache entry is the
\* refreshed token and the context returned embeds it.
C6_RefreshPath ==
    \A c \in Slots :
        LET r == calls[c]
        IN (ReadStale(r) /\ Truthy(r.readTok.refresh_token)) =>
              /\ r.nRefresh = 1
              /\ (r.pc = "done" /\ r.okRefresh = 1) =>
                    /\ r.nExchange = 0
                    /\ r.outcome = "context"
                    /\ r.ctx.keycloak_token # r.readTok
                    /\ r.ctx.keycloak_token = r.got
                    /\ r.ctx.keycloak_token.access_token = serial
                    /\ r.ctx.keycloak_token.issued_at \in r.readAt..now
                    /\ cache[r.uid] = r.ctx.keycloak_token

\* a stale token with a refresh token has been refreshed
C6_Witness ==
    \E c \in Slots :
        /\ calls[c].pc = "done"
        /\ ReadStale(calls[c])
        /\ calls[c].okRefresh = 1
        /\ calls[c].readTok.expires_at > now

\* C7: when the refresh call fails, its error is not propagated: the call
\* makes one exchange call, and when that returns a token the token is
\* stored in the cache and embedded in the context returned; the only
\* failure the call can end with is the exchange's.
C7_RefreshFailureFallsBack ==
    \A c \in Slots :
        LET r == calls[c]
        IN RefreshFailed(r) =>
              /\ r.pc \in {"exchanging", "exchanged", "done"}
              /\ r.nExchange = 1
              /\ r.outcome \in {"none", "context", "ExchangeFailed"}
              /\ (r.pc = "done" /\ r.okExchange = 1) =>
                    /\ r.outcome = "context"
                    /\ r.ctx.keycloak_token.access_token = serial
                    /\ r.ctx.keycloak_token # r.readTok
                    /\ cache[r.uid] = r.ctx.keycloak_token
                    /\ r.nWrites = 1

\* the refresh failed and the fallback exchange returned a token
C7_Witness ==
    \E c \in Slots :
        /\ calls[c].pc = "done"
        /\ RefreshFailed(calls[c])
        /\ calls[c].okExchange = 1
        /\ calls[c].outcome = "context"

\* C8: of two getContext calls in a row for the same user, the first a
\* cache hit that made no network call, with the cached token not stale:
\* the second makes no network call either, finds and leaves the cache
\* entry unchanged, and returns the token the first returned.
C8_Idempotent ==
    \A c \in Slots :
        LET r == calls[c]
        IN (r.pc # "idle" /\ r.prevHit
            /\ r.readAt < r.prev.expires_at - 300) =>
              /\ r.pc = "done"
              /\ r.nRefresh = 0 /\ r.nExchange = 0 /\ r.nWrites = 0
              /\ r.before = r.prev
              /\ r.outcome = "context"
              /\ r.ctx.keycloak_token = r.prev
              /\ cache[r.uid] = r.prev

\* the second of two calls in a row on a fresh cached token has returned
C8_Witness ==
    \E c \in Slots :
        /\ calls[c].pc = "done"
        /\ calls[c].prevHit
        /\ calls[c].readAt < calls[c].prev.expires_at - 300
        /\ calls[c].ctx.keycloak_token = calls[c].prev

\* C9: a get(u) right after put(u, t) returns t if t is not expired at the
\* time of the read and nothing otherwise; a get(u) that finds an expired
\* entry returns nothing and removes it; and once a get has evicted u's
\* entry, every get(u) returns nothing until the next put(u, .).
C9_CacheRoundTrip ==
    lastOp.op = "get" =>
        /\ lastOp.prevPut # NoToken =>
              lastOp.value = IF lastOp.at < lastOp.prevPut.expires_at
                             THEN lastOp.prevPut
                             ELSE NoToken
        /\ (lastOp.found # NoToken /\ lastOp.at >= lastOp.found.expires_at) =>
              (lastOp.value = NoToken /\ cache[lastOp.u] = NoToken)
        /\ lastOp.wasEvicted => lastOp.value = NoToken
        /\ \A u \in evicted : cache[u] = NoToken

\* a get right after the put of a token that has expired since, and a get
\* of an entry an earlier get evicted
C9_Witness ==
    /\ lastOp.op = "get"
    /\ \/ /\ lastOp.prevPut # NoToken
          /\ lastOp.prevPut.expires_at > lastOp.prevPut.issued_at
          /\ lastOp.at >= lastOp.prevPut.expires_at
       \/ lastOp.wasEvicted

\* the token of ctx carries the realm role
HasRole(ctx, role) ==
    \E i \in DOMAIN ctx.keycloak_token.roles :
        ctx.keycloak_token.roles[i] = role

\* the condition of a gate, from its table in the specification
Allowed(form, ctx) ==
    CASE form.kind = "role" -> HasRole(ctx, form.roles[1])
      [] form.kind = "any" ->
           \E i \in DOMAIN form.roles : HasRole(ctx, form.roles[i])
      [] form.kind = "all" ->
           \A i \in DOMAIN form.roles : HasRole(ctx, form.roles[i])
      [] form.kind = "resource" ->
           LET ra == ctx.keycloak_token.resource_access[form.resource]
           IN /\ ra # NoClaim
              /\ ra.has_roles
              /\ \E i \in DOMAIN ra.roles : ra.roles[i] = form.roles[1]
      [] form.kind = "custom" ->
           \/ form.check = "allow_all"
           \/ form.check = "is_u1" /\ ctx.entra_user_id = "u1"
      [] OTHER -> FALSE

\* C10: a gate invokes its target only when the context was obtained and
\* the predicate is true, and then once; when the predicate is denied the
\* target is not invoked; when it passes and the target returns, the gate
\* returns the target's result unchanged.
C10_GateInvokesTarget ==
    \A c \in Slots :
        LET r == calls[c]
        IN r.form.kind \in GateKinds =>
              /\ r.targetCalls <= 1
              /\ r.targetCalls = 1 => (r.ctx # NoContext /\ Allowed(r.form, r.ctx))
              /\ (r.pc = "done" /\ r.ctx # NoContext /\ ~Allowed(r.form, r.ctx)) =>
                    (r.targetCalls = 0 /\ r.outcome = "AuthorizationError")
              /\ (r.pc = "done" /\ r.ctx # NoContext /\ Allowed(r.form, r.ctx)) =>
                    /\ r.targetCalls = 1
                    /\ r.targetDid \in TargetReturns =>
                          (r.outcome = "returned" /\ r.result = r.targetDid)

\* a gate has let a call through and returned the target's result
C10_Witness ==
    \E c \in Slots :
        /\ calls[c].pc = "done"
        /\ calls[c].form.kind = "resource"
        /\ calls[c].targetCalls = 1
        /\ calls[c].result = "r2"

\* the call was made through a gate and has ended
GateDone(r) == r.pc = "done" /\ r.form.kind \in GateKinds

\* the failures a gate can meet below it, by name
RawFailures == {"RuntimeError", "ValueError", "DecodeError", "ExchangeFailed",
                "RefreshFailed", "check raised"}

\* C11, as stated: a denied gate returns a structured failure object as the
\* result of the gated operation instead of raising: no AuthorizationError
\* leaves the gate, for each of the five gate forms.
C11_DeniedGateReturns ==
    \A c \in Slots :
        LET r == calls[c]
        IN (GateDone(r) /\ r.predicate = "deny") =>
              r.outcome = "returned"

\* C12: when obtaining the context fails (service not initialised, no
\* primary token, exchange failure) or the predicate raises, the gate ends
\* with an AuthorizationError, never with the lower-level failure itself,
\* and the target has not been invoked.
C12_FailuresLeaveAsAuthorizationError ==
    \A c \in Slots :
        LET r == calls[c]
        IN /\ GateDone(r) => r.outcome \notin RawFailures
           /\ (GateDone(r) /\ (r.ctx = NoContext \/ r.predicate = "error")) =>
                 /\ r.outcome = "AuthorizationError"
                 /\ r.cause \in RawFailures
                               \cup {"check raised AuthorizationError"}
                 /\ r.targetCalls = 0
                 /\ r.targetDid = Absent
                 /\ r.result = Absent

\* a gated call whose exchange failed has ended with an AuthorizationError
C12_Witness ==
    \E c \in Slots :
        /\ GateDone(calls[c])
        /\ calls[c].nExchange = 1 /\ calls[c].okExchange = 0
        /\ calls[c].cause = "ExchangeFailed"
        /\ calls[c].outcome = "AuthorizationError"

\* what the caller of a gated operation can tell a failed call by: the kind
\* of the exception and the structure format_authorization_error gives it,
\* that is the success flag, the error code and the required-roles list;
\* the message is free text
Observed(r) ==
    LET body == format_authorization_error(r.message, r.required_roles)
    IN [kind |-> r.outcome, success |-> body.success, error |-> body.error,
        required_roles |-> body.required_roles]

\* what the same gated operation yields for the same caller when the realm
\* is unavailable: get_auth_context() raises the exchange failure
OutageOutcome(r) ==
    GateWrapper([IdleCall EXCEPT !.form = r.form, !.src = r.src],
                Raised("ExchangeFailed"))

\* C13: what the caller of a gated operation observes when the predicate is
\* denied differs, in error kind or in structured shape, from what it
\* observes of the same operation when the realm is unavailable and the
\* exchange fails.
C13_OutageDistinctFromDenial ==
    \A c \in Slots :
        LET r == calls[c]
        IN (GateDone(r) /\ r.predicate = "deny") =>
              Observed(r) # Observed(OutageOutcome(r))

\* the instants around the expiry and the refresh window of token t, and now
Instants(t) ==
    {t.issued_at + t.expires_in + d : d \in {-301, -300, -299, -1, 0, 1}}
    \cup {now}

\* C14: for every token the client has parsed and every instant, is_expired
\* holds iff the instant is at or after issuance + lifetime, needs_refresh
\* holds iff it is at or after issuance + lifetime - 300 seconds, and
\* needs_refresh holds whenever is_expired holds.
C14_ExpiryPredicates ==
    \A u \in UserIds :
        cache[u] # NoToken =>
            \A time \in Instants(cache[u]) :
                LET t == cache[u]
                IN /\ is_expired(t, time) <=>
                         time >= t.issued_at + t.expires_in
                   /\ needs_refresh(t, time) <=>
                         time >= t.issued_at + t.expires_in - 300
                   /\ is_expired(t, time) => needs_refresh(t, time)

\* a token issued earlier with a lifetime of 400 s is now within its refresh
\* window and not expired, while another user's token has expired
C14_Witness ==
    \E u, v \in UserIds :
        /\ cache[u] # NoToken /\ cache[v] # NoToken
        /\ cache[u].expires_in = 400
        /\ now > cache[u].issued_at
        /\ needs_refresh(cache[u], now) /\ ~is_expired(cache[u], now)
        /\ is_expired(cache[v], now) /\ now = cache[v].expires_at

\* C15: every token in the cache and every token embedded in a returned
\* context has expiry = issuance + lifetime, also when the response it was
\* parsed from had no expires_in field (the lifetime is then 300 s).
C15_ExpiryIsIssuancePlusLifetime ==
    /\ \A u \in UserIds :
          cache[u] # NoToken =>
             cache[u].expires_at = cache[u].issued_at + cache[u].expires_in
    /\ \A c \in Slots :
          calls[c].ctx # NoContext =>
             LET t == calls[c].ctx.keycloak_token
             IN /\ t.expires_at = t.issued_at + t.expires_in
                /\ t.expires_in \in {0, 300, 400}

\* a context embeds a token parsed, after time 0, from a response without
\* expires_in, and the cache holds that token
C15_Witness ==
    \E c \in Slots :
        /\ calls[c].pc = "done" /\ calls[c].outcome = "context"
        /\ calls[c].nWrites = 1
        /\ calls[c].ctx.keycloak_token.expires_in = 300
        /\ calls[c].ctx.keycloak_token.issued_at > 0
        /\ calls[c].ctx.keycloak_token.expires_at
              = calls[c].ctx.keycloak_token.issued_at + 300
        /\ cache[calls[c].uid] = calls[c].ctx.keycloak_token

\* the call went through a gate of this kind, which obtained a context
Checked(r, kind) ==
    GateDone(r) /\ r.form.kind = kind /\ r.ctx # NoContext

\* role is one of the context's roles
InContextRoles(r, role) ==
    \E i \in DOMAIN r.ctx.keycloak_roles : r.ctx.keycloak_roles[i] = role

\* C16: a single-role gate for role R passes iff R is one of the context's
\* roles; when it fails, the target is not invoked and the
\* AuthorizationError's required-roles list is exactly [R].
C16_SingleRoleGate ==
    \A c \in Slots :
        LET r == calls[c]
        IN Checked(r, "role") =>
              /\ r.predicate = "pass" <=> InContextRoles(r, r.form.roles[1])
              /\ r.targetCalls = 1 <=> InContextRoles(r, r.form.roles[1])
              /\ ~InContextRoles(r, r.form.roles[1]) =>
                    /\ r.outcome = "AuthorizationError"
                    /\ r.required_roles = <<r.form.roles[1]>>

\* the gate for "admin" has denied a principal whose roles are data_reader
C16_Witness ==
    \E c \in Slots :
        /\ Checked(calls[c], "role")
        /\ calls[c].form.roles = <<"admin">>
        /\ calls[c].ctx.keycloak_roles = <<"data_reader">>
        /\ calls[c].predicate = "deny"
        /\ calls[c].required_roles = <<"admin">>

\* C17: an any-of gate passes iff one of the required roles is one of the
\* context's roles; with an empty required list it fails for every context.
C17_AnyOfGate ==
    \A c \in Slots :
        LET r == calls[c]
            some == \E i \in DOMAIN r.form.roles :
                       InContextRoles(r, r.form.roles[i])
        IN Checked(r, "any") =>
              /\ r.predicate = "pass" <=> some
              /\ r.targetCalls = 1 <=> some
              /\ r.form.roles = <<>> =>
                    (r.predicate = "deny" /\ r.outcome = "AuthorizationError")

\* an any-of gate with an empty list has denied a principal that has roles
C17_Witness ==
    \E c \in Slots :
        /\ Checked(calls[c], "any")
        /\ calls[c].form.roles = <<>>
        /\ calls[c].ctx.keycloak_roles # <<>>
        /\ calls[c].predicate = "deny"

\* C18: an all-of gate passes iff every required role is one of the
\* context's roles, so always for an empty required list; when it fails, the
\* required-roles list of the error holds each required role the context
\* lacks, once, and no role the context has.
C18_AllOfGate ==
    \A c \in Slots :
        LET r == calls[c]
            every == \A i \in DOMAIN r.form.roles :
                        InContextRoles(r, r.form.roles[i])
            lacking == {r.form.roles[i] : i \in DOMAIN r.form.roles}
                       \ {r.ctx.keycloak_roles[i] :
                             i \in DOMAIN r.ctx.keycloak_roles}
        IN Checked(r, "all") =>
              /\ r.predicate = "pass" <=> every
              /\ r.targetCalls = 1 <=> every
              /\ r.form.roles = <<>> => r.predicate = "pass"
              /\ ~every =>
                    /\ r.outcome = "AuthorizationError"
                    /\ {r.required_roles[i] : i \in DOMAIN r.required_roles}
                          = lacking
                    /\ Len(r.required_roles) = Cardinality(lacking)

\* an all-of gate for admin and data_reader has denied a principal that has
\* data_reader only: the list is [admin]
C18_Witness ==
    \E c \in Slots :
        /\ Checked(calls[c], "all")
        /\ calls[c].form.roles = <<"admin", "data_reader">>
        /\ calls[c].ctx.keycloak_roles = <<"data_reader">>
        /\ calls[c].predicate = "deny"
        /\ calls[c].required_roles = <<"admin">>

\* C19: a resource-role gate (Res, R) passes iff Res is a key of the
\* token's resource-role mapping and R is one of that resource's roles; when
\* Res is not a key the gate ends with its denial ("Insufficient
\* permissions. Required: Res:R"), not with a wrapped evaluation error.
C19_ResourceRoleGate ==
    \A c \in Slots :
        LET r == calls[c]
            ra == r.ctx.keycloak_token.resource_access[r.form.resource]
            has == /\ ra # NoClaim
                   /\ ra.has_roles
                   /\ \E i \in DOMAIN ra.roles : ra.roles[i] = r.form.roles[1]
        IN Checked(r, "resource") =>
              /\ r.predicate = "pass" <=> has
              /\ r.targetCalls = 1 <=> has
              /\ ra = NoClaim =>
                    /\ r.predicate = "deny"
                    /\ r.cause = "denied"
                    /\ r.outcome = "AuthorizationError"
                    /\ r.message = "Insufficient permissions. Required: "
                                   \o r.form.resource \o ":" \o r.form.roles[1]

\* a resource-role gate has denied a principal whose token has resource
\* roles, but none for the gate's resource
C19_Witness ==
    \E c \in Slots :
        LET r == calls[c]
        IN /\ Checked(r, "resource")
           /\ r.ctx.keycloak_token.resource_access[r.form.resource] = NoClaim
           /\ \E res \in Resources :
                 r.ctx.keycloak_token.resource_access[res] # NoClaim
           /\ r.predicate = "deny"

\* C20, as stated: the AuthorizationError of a denied single-role, any-of,
\* all-of or resource-role gate carries a list of the roles that were
\* required but missing, and the list is not empty when a role is missing.
C20_DenialNamesMissingRoles ==
    \A c \in Slots :
        LET r == calls[c]
        IN (GateDone(r) /\ r.predicate = "deny"
            /\ r.form.kind \in {"role", "any", "all", "resource"}
            /\ r.form.roles # <<>>) =>
              /\ r.outcome = "AuthorizationError"
              /\ r.required_roles # <<>>

\* t is, field for field, the token parsed from one response the realm has
\* given
Whole(t) ==
    /\ t.access_token \in 1..serial
    /\ \E shape \in ResponseShapes :
          t = parse_token_response(
                  TokenResponse(t.sub, t.access_token, shape), t.issued_at)

\* C21: with concurrent getContext calls for one user, each context
\* returned holds a whole token (the one its call received, or the one it
\* read from the cache), and the user's cache entry is at every moment
\* absent or one whole token: the one the latest writer received.
C21_WholeTokensLastWriteWins ==
    /\ \A u \in UserIds : cache[u] = NoToken \/ Whole(cache[u])
    /\ \A c \in Slots :
          LET r == calls[c]
          IN (r.pc = "done" /\ r.outcome = "context") =>
                /\ Whole(r.ctx.keycloak_token)
                /\ r.nWrites = 1 =>
                      /\ cache[r.uid] = r.ctx.keycloak_token
                      /\ r.ctx.keycloak_token = r.got
                      /\ r.ctx.keycloak_token # r.readTok
                /\ r.nWrites = 0 => r.ctx.keycloak_token = r.readTok

\* two calls started on the same empty entry; one has written its token
\* while the other still awaits its exchange
C21_Witness ==
    \E c, d \in Slots :
        /\ c # d
        /\ calls[c].uid = calls[d].uid
        /\ calls[c].before = NoToken /\ calls[d].before = NoToken
        /\ calls[c].pc = "done" /\ calls[c].nWrites = 1
        /\ calls[d].pc = "exchanging"
        /\ cache[calls[c].uid] = calls[c].ctx.keycloak_token

\* C22: a getContext call cancelled while its refresh or exchange call is
\* in flight ends with the cancellation: it returns no context, no call of
\* it has returned a token, it has written nothing to the cache, and a
\* cancelled refresh is not followed by an exchange.
C22_CancellationEndsCall ==
    \A c \in Slots :
        LET r == calls[c]
        IN r.cause = "CancelledError" =>
              /\ r.pc = "done"
              /\ r.outcome = "CancelledError"
              /\ r.ctx = NoContext
              /\ r.okRefresh = 0 /\ r.okExchange = 0
              /\ r.nWrites = 0
              /\ r.nRefresh + r.nExchange >= 1

\* a call that found a stale token with a refresh token was cancelled
\* during its refresh: it has made no exchange call and the entry is as read
C22_Witness ==
    \E c \in Slots :
        /\ calls[c].cause = "CancelledError"
        /\ calls[c].nRefresh = 1 /\ calls[c].nExchange = 0
        /\ calls[c].readTok # NoToken
        /\ cache[calls[c].uid] = calls[c].readTok

\* C23: a getContext call that is passed no primary token, while the
\* request context raises or holds none, ends with the no-primary-token
\* error (ValueError) without having read the cache or called the realm.
C23_NoPrimaryTokenFailsFirst ==
    \A c \in Slots :
        LET r == calls[c]
        IN (/\ r.pc # "idle"
            /\ r.src.via = "ambient"
            /\ r.src.p \in {AmbientRaises, AmbientNone}
            /\ r.cause # "RuntimeError") =>
              /\ r.pc = "done"
              /\ r.cause = "ValueError"
              /\ r.uid = NoUser
              /\ r.nRefresh = 0 /\ r.nExchange = 0

\* C24: once the orchestrator is initialised, a further call to initialise
\* leaves the cache of the instance as it is.
C24_InitialisedOnce ==
    [][(service /\ initialize_token_exchange_service) => cache' = cache]_vars

\* what get_auth_context() gave the gate of call r
GateContext(r) ==
    IF r.ctx = NoContext THEN Raised(r.cause) ELSE Ok(r.ctx)

\* C25: on the outcome of get_auth_context that a gate evaluated, the
\* helper's check_role, check_any_role and check_all_roles are true exactly
\* when the single-role, any-of and all-of gate passed (false when the
\* context could not be obtained), and on the context's token the client's
\* has_role, has_any_role, has_all_roles and has_resource_role are true
\* exactly when the corresponding gate passed.
C25_HelpersAgreeWithGates ==
    \A c \in Slots :
        LET r == calls[c]
            res == GateContext(r)
            passed == r.predicate = "pass"
        IN GateDone(r) =>
              /\ r.form.kind = "role" =>
                    /\ check_role(res, r.form.roles[1]) <=> passed
                    /\ res.ok =>
                          (has_role(r.ctx.keycloak_token, r.form.roles[1])
                              <=> passed)
              /\ r.form.kind = "any" =>
                    /\ check_any_role(res, r.form.roles) <=> passed
                    /\ res.ok =>
                          (has_any_role(r.ctx.keycloak_token, r.form.roles)
                              <=> passed)
              /\ r.form.kind = "all" =>
                    /\ check_all_roles(res, r.form.roles) <=> passed
                    /\ res.ok =>
                          (has_all_roles(r.ctx.keycloak_token, r.form.roles)
                              <=> passed)
              /\ (r.form.kind = "resource" /\ res.ok) =>
                    (has_resource_role(r.ctx.keycloak_token, r.form.resource,
                                       r.form.roles[1]) <=> passed)

\* an all-of gate has passed, and the helper's and the client's all-of
\* checks are true on its context
C25_Witness ==
    /\ \E c \in Slots :
          /\ Checked(calls[c], "all")
          /\ calls[c].predicate = "pass"
          /\ check_all_roles(GateContext(calls[c]), calls[c].form.roles)
          /\ has_all_roles(calls[c].ctx.keycloak_token, calls[c].form.roles)

\* C26: every context obtained is consistent: its primary user id is the
\* primary token's oid claim if it has one, else its sub claim; its
\* secondary user id is the subject of its token; its role list is the
\* realm role list of its token.
C26_ContextConsistent ==
    \A c \in Slots :
        LET r == calls[c]
            p == r.src.p
        IN r.ctx # NoContext =>
              /\ p.oid # Missing => r.ctx.entra_user_id = p.oid
              /\ (p.oid = Missing /\ p.sub # Missing) =>
                    r.ctx.entra_user_id = p.sub
              /\ r.ctx.keycloak_user_id = r.ctx.keycloak_token.sub
              /\ r.ctx.keycloak_roles = r.ctx.keycloak_token.roles
              /\ r.ctx.keycloak_token.sub = RealmSubject(p.token)

\* C26, with the oid claim used only when it has a value: the primary user
\* id of every context obtained is the primary token's oid claim if that is
\* neither missing nor null nor empty, else its sub claim (null if the sub
\* claim is null), else the empty string; its secondary user id is the
\* subject of its token; its role list is the realm role list of its token.
C26_ContextConsistentOnOidValue ==
    \A c \in Slots :
        LET r == calls[c]
            p == r.src.p
            noOid == p.oid \in {Missing, Absent, ""}
        IN r.ctx # NoContext =>
              /\ ~noOid => r.ctx.entra_user_id = p.oid
              /\ (noOid /\ p.sub # Missing) => r.ctx.entra_user_id = p.sub
              /\ (noOid /\ p.sub = Missing) => r.ctx.entra_user_id = ""
              /\ r.ctx.keycloak_user_id = r.ctx.keycloak_token.sub
              /\ r.ctx.keycloak_roles = r.ctx.keycloak_token.roles
              /\ r.ctx.keycloak_token.sub = RealmSubject(p.token)

\* a context for a primary token whose oid claim is present but empty, by
\* its sub claim
C26_Witness ==
    \E c \in Slots :
        /\ calls[c].ctx # NoContext
        /\ calls[c].src.p.oid = "" /\ calls[c].src.p.sub = "u2"
        /\ calls[c].ctx.entra_user_id = "u2"
        /\ calls[c].ctx.keycloak_user_id = "kc-2"

\* the gate of call r was evaluated on a token whose claims had neither
\* realm roles nor resource access
OnClaimlessToken(r) ==
    /\ GateDone(r) /\ r.ctx # NoContext
    /\ r.form.kind \in {"role", "any", "all", "resource"}
    /\ RealmClaims(r.ctx.keycloak_token.sub).realm_access = NoClaim
    /\ ~RealmClaims(r.ctx.keycloak_token.sub).has_resource_access

PlainDenial(r) ==
    /\ r.ctx.keycloak_token.roles = <<>>
    /\ r.ctx.keycloak_token.resource_access = NoResourceAccess
    /\ r.outcome = "AuthorizationError"
    /\ r.cause = "denied"
    /\ r.targetCalls = 0

\* C27 (as stated): a token whose claims have neither realm roles nor
\* resource access is parsed to an empty role list and an empty resource
\* mapping, and every role gate evaluated on it is a plain denial.
C27_MissingClaimsDeny ==
    \A c \in Slots : OnClaimlessToken(calls[c]) => PlainDenial(calls[c])

\* C27 (amended): a token whose claims have neither realm roles nor
\* resource access is parsed to an empty role list and an empty resource
\* mapping, and every role gate that requires at least one role is a plain
\* denial on it; an all-of gate that requires no role passes.
C27_MissingClaimsDenyRequiredRoles ==
    \A c \in Slots :
        LET r == calls[c]
        IN OnClaimlessToken(r) =>
              /\ r.ctx.keycloak_token.roles = <<>>
              /\ r.ctx.keycloak_token.resource_access = NoResourceAccess
              /\ r.form.roles # <<>> => PlainDenial(r)
              /\ (r.form.kind = "all" /\ r.form.roles = <<>>) =>
                    r.predicate = "pass"

\* a resource-role gate has denied a principal whose token has no claims
C27_Witness ==
    \E c \in Slots :
        /\ OnClaimlessToken(calls[c])
        /\ calls[c].form.kind = "resource"
        /\ PlainDenial(calls[c])

ValidPort(cfg) == \E n \in 1..65535 : n = cfg.port
ValidTransport(cfg) ==
    \/ cfg.transport = "http"
    \/ cfg.transport = "sse"
    \/ cfg.transport = "stdio"

\* C28: validate() raises on every configuration whose port is outside
\* 1..65535 or whose transport is not one of http, sse, stdio, and returns
\* normally on every configuration that is not for production and whose
\* port and transport are valid.
C28_ValidateConfig ==
    config.outcome # "none" =>
        /\ (~ValidPort(config.cfg) \/ ~ValidTransport(config.cfg)) =>
              config.outcome # "ok"
        /\ (/\ config.cfg.environment # "production"
            /\ ValidPort(config.cfg) /\ ValidTransport(config.cfg)) =>
              config.outcome = "ok"
        /\ (config.cfg.environment # "production"
              /\ ~ValidPort(config.cfg)) =>
              config.outcome = "Invalid port number"

\* a development configuration with the largest port has been accepted
C28_Witness ==
    /\ config.outcome = "ok"
    /\ config.cfg.environment = "development"
    /\ config.cfg.port = 65535
    /\ config.cfg.transport = "stdio"

\* the entry that call r found was there and had expired when r read it
FoundExpired(r) ==
    /\ r.pc # "idle" /\ r.uid # NoUser
    /\ r.before # NoToken
    /\ r.readAt >= r.before.expires_at

\* C29: when the user's entry has expired at the time of the call, the read
\* evicts it and the call goes on as on a miss: it makes one exchange call
\* and no refresh call, also when the expired token had a refresh token.
C29_ExpiredEntryIsMiss ==
    \A c \in Slots :
        LET r == calls[c]
        IN FoundExpired(r) =>
              /\ r.readTok = NoToken
              /\ r.nRefresh = 0
              /\ r.nExchange = 1
              /\ r.pc \in {"exchanging", "exchanged"} =>
                    cache[r.uid] = NoToken
              /\ (r.pc = "done" /\ r.outcome # "context") =>
                    cache[r.uid] = NoToken

\* a call that found an expired token with a refresh token has returned a
\* context after one exchange and no refresh
C29_Witness ==
    \E c \in Slots :
        /\ FoundExpired(calls[c])
        /\ calls[c].before.refresh_token = "rt"
        /\ calls[c].pc = "done" /\ calls[c].outcome = "context"
        /\ calls[c].nExchange = 1 /\ calls[c].nRefresh = 0

\* C30: the entry of a user changes only in a get, a put or a delete for
\* that user, in a clear, or when the service is initialised: the passage
\* of time leaves every entry, an expired one included, where it is, and so
\* do get, put and delete for another user; a delete for a user without an
\* entry changes nothing.
C30_LazyPerKeyEviction ==
    [][/\ \A u \in UserIds :
             cache'[u] # cache[u] =>
                \/ lastOp'.op \in {"get", "put", "delete"} /\ lastOp'.u = u
                \/ lastOp'.op = "clear"
                \/ initialize_token_exchange_service
       /\ now' # now => cache' = cache
       /\ \A u \in UserIds :
             (invalidate_cache(u) /\ cache[u] = NoToken) => cache' = cache
      ]_vars

\* a get for one user has just left the expired entry of another in place
C30_Witness ==
    \E u, v \in CacheUsers :
        /\ u # v
        /\ cache[u] # NoToken /\ now >= cache[u].expires_at
        /\ now > cache[u].issued_at
        /\ lastOp.op = "get" /\ lastOp.u = v /\ lastOp.at = now

\* C31: a gated operation called while the orchestrator is not initialised
\* ends with an AuthorizationError without the target being invoked; the
\* attempt reads no cache, calls no client and creates no service, cache
\* entry or token.
C31_GateBeforeInitialisation ==
    /\ ~service => (cache = EmptyCache /\ serial = 0)
    /\ \A c \in Slots :
          LET r == calls[c]
          IN (r.form.kind \in GateKinds /\ ~service) =>
                /\ r.pc = "done"
                /\ r.outcome = "AuthorizationError"
                /\ r.cause = "RuntimeError"
                /\ r.targetCalls = 0
                /\ r.ctx = NoContext
                /\ r.uid = NoUser
                /\ r.nRefresh = 0 /\ r.nExchange = 0 /\ r.nWrites = 0

\* a gate was called before initialisation and has raised
C31_Witness ==
    \E c \in Slots :
        /\ GateDone(calls[c])
        /\ calls[c].cause = "RuntimeError"
        /\ calls[c].outcome = "AuthorizationError"
        /\ ~service

\* C32: on a service with caching enabled, with calls made one at a time,
\* whenever a call returns a context for user u, the cache entry of u is at
\* that moment the token of the context.  (On a service built without a
\* cache every call exchanges, and nothing is stored.)
C32_CacheHoldsReturnedToken ==
    \A c \in Slots :
        LET r == calls[c]
        IN /\ (cache_tokens /\ r.pc = "done" /\ r.outcome = "context") =>
                 cache[r.uid] = r.ctx.keycloak_token
           /\ (~cache_tokens /\ r.pc = "done" /\ r.outcome = "context") =>
                 /\ r.nExchange = 1 /\ r.nRefresh = 0 /\ r.nWrites = 0
                 /\ r.readTok = NoToken
                 /\ cache = EmptyCache

\* a call has returned a context after refreshing a token it found cached
C32_Witness ==
    \E c \in Slots :
        /\ cache_tokens
        /\ calls[c].pc = "done" /\ calls[c].outcome = "context"
        /\ calls[c].okRefresh = 1
        /\ calls[c].readTok # NoToken
        /\ cache[calls[c].uid] = calls[c].ctx.keycloak_token
        /\ cache[calls[c].uid] # calls[c].readTok

\* call r directly follows a call for the same user that obtained its token
\* by exchange or refresh, and no time has passed since that call returned
FollowsFetchAtOnce(r) ==
    /\ r.pc # "idle"
    /\ r.prev # NoToken /\ ~r.prevHit

\* C33 (as stated): a call right after a call that obtained a token, with
\* no time elapsed, makes no network call, whatever the token's lifetime.
C33_SecondCallNoNetwork ==
    \A c \in Slots :
        FollowsFetchAtOnce(calls[c]) =>
            (calls[c].nRefresh = 0 /\ calls[c].nExchange = 0)

\* C33, for tokens that are not stale: a call right after a call that
\* obtained a token, with no time elapsed, makes no network call and returns
\* that token when the token has more than 300 seconds left to live.  A
\* token of a lifetime of 300 seconds or less, the default included, never
\* has: it is stale at once, and the second call then starts with a refresh
\* call when the token has a refresh token, and with an exchange call when
\* the token has expired (lifetime 0).
C33_SecondCallNoNetworkIfFresh ==
    \A c \in Slots :
        LET r == calls[c]
            t == r.prev
            left == t.issued_at + t.expires_in - r.readAt
        IN FollowsFetchAtOnce(r) =>
              /\ r.readAt >= t.issued_at
              /\ left > 300 =>
                    /\ r.nRefresh = 0 /\ r.nExchange = 0
                    /\ r.pc = "done" /\ r.outcome = "context"
                    /\ r.ctx.keycloak_token = t
              /\ t.expires_in <= 300 => left <= 300
              /\ (left \in 1..300 /\ t.refresh_token # Absent) =>
                    r.nRefresh = 1
              /\ left <= 0 => (r.nRefresh = 0 /\ r.nExchange = 1)

\* the second call found the token just obtained, of a lifetime of 400
\* seconds, and has returned it without a network call
C33_Witness ==
    \E c \in Slots :
        /\ FollowsFetchAtOnce(calls[c])
        /\ calls[c].prev.expires_in = 400
        /\ calls[c].readAt = calls[c].prev.issued_at
        /\ calls[c].pc = "done"
        /\ calls[c].nRefresh = 0 /\ calls[c].nExchange = 0
        /\ calls[c].ctx.keycloak_token = calls[c].prev

\* C34: the token in a context returned for a primary token was obtained
\* from that primary token: its subject is the subject the realm maps the
\* primary token to, also for primary tokens without oid and sub claim.
C34_CacheIsolation ==
    \A c \in Slots :
        LET r == calls[c]
        IN (r.pc = "done" /\ r.outcome = "context") =>
              r.ctx.keycloak_token.sub = RealmSubject(r.src.p.token)

\* C35: a call that was waiting on its refresh or exchange when the user's
\* entry was invalidated does not put an entry back: a call that had read
\* an entry and stores a token when its response arrives finds an entry to
\* replace, never the place emptied by an invalidation or a clear.
C35_NoReinsertAfterInvalidation ==
    \A c \in Slots :
        LET r == calls[c]
        IN (r.pc = "done" /\ r.readTok # NoToken /\ r.nWrites = 1) =>
              r.replaced # NoToken

\* a call has stored a token over the token that a concurrent call had
\* stored while it was waiting
OverwroteConcurrent(r) ==
    /\ r.pc = "done" /\ r.nWrites = 1
    /\ r.replaced # NoToken
    /\ r.replaced # r.before

\* C38 (as stated): the token that a call stores over the token of a
\* concurrent call does not expire before the token it replaces.
C38_LatestExpiryKept ==
    \A c \in Slots :
        OverwroteConcurrent(calls[c]) =>
            calls[c].ctx.keycloak_token.expires_at
                >= calls[c].replaced.expires_at

\* C38 (amended): the last write wins: a call that stores a token leaves
\* its own token, the one the realm gave it, in the cache, whether that
\* token expires before or after the token it replaces and whether the
\* realm issued it before or after that one.
C38_LastResponseKept ==
    \A c \in Slots :
        LET r == calls[c]
        IN (r.pc = "done" /\ r.nWrites = 1) =>
              /\ cache[r.uid] = r.ctx.keycloak_token
              /\ r.ctx.keycloak_token = r.got
              /\ r.replaced # NoToken => r.replaced # r.got

\* a call has replaced the token of a concurrent call by one that expires
\* earlier and that the realm had issued before the one replaced
C38_Witness ==
    \E c \in Slots :
        /\ OverwroteConcurrent(calls[c])
        /\ cache[calls[c].uid] = calls[c].ctx.keycloak_token
        /\ calls[c].ctx.keycloak_token.expires_at
              < calls[c].replaced.expires_at
        /\ calls[c].ctx.keycloak_token.access_token
              < calls[c].replaced.access_token

\* C36: a gate ends with an AuthorizationError of its own only when the
\* context could not be obtained, the predicate could not be evaluated or
\* the predicate was denied: after the predicate has passed, an error that
\* the target raises reaches the caller as that error, so that an
\* AuthorizationError then is one the target raised itself.
C36_TargetErrorPropagates ==
    \A c \in Slots :
        LET r == calls[c]
        IN /\ (GateDone(r) /\ r.outcome = "AuthorizationError"
               /\ r.predicate = "pass") =>
                 /\ r.targetDid = "<raises AuthorizationError>"
                 /\ r.message = TargetError.message
                 /\ r.required_roles = TargetError.required_roles
           /\ (GateDone(r) /\ r.targetDid = "<raises>") =>
                 r.outcome = "target raised"

\* C37: a call makes at most one refresh call and at most one exchange
\* call, the refresh first: it never awaits a refresh after an exchange and
\* is over once an exchange has returned; and, every awaited client call
\* returning or failing, a call that awaits one completes.
C37_TerminatesWithinTwoCalls ==
    /\ [](\A c \in Slots :
            LET r == calls[c]
            IN /\ r.nRefresh <= 1 /\ r.nExchange <= 1
               /\ r.pc \in {"refreshing", "refreshed"} =>
                     (r.nRefresh = 1 /\ r.nExchange = 0)
               /\ r.pc \in {"exchanging", "exchanged"} => r.nExchange = 1
               /\ r.okRefresh + r.okExchange <= 1
               /\ (r.okRefresh = 1 \/ r.okExchange = 1) => r.pc = "done")
    /\ \A c \in Slots :
          (calls[c].pc \in {"refreshing", "refreshed", "exchanging",
                             "exchanged"})
              ~> (calls[c].pc = "done")

\* a call has completed after two network calls: a refresh that failed and
\* an exchange
C37_Witness ==
    \E c \in Slots :
        /\ calls[c].pc = "done"
        /\ calls[c].nRefresh = 1 /\ calls[c].nExchange = 1
        /\ calls[c].okRefresh = 0

\* the role lists the helper is asked about
HelperLists == {<<>>, <<"data_reader">>, <<"admin", "data_reader">>}

\* C39: when get_auth_context() fails (service not initialised, no primary
\* token, exchange failure) the helper's check_role, check_any_role and
\* check_all_roles are false for every argument, get_user_roles is the
\* empty list and get_user_info the empty map.
C39_HelperNeverRaises ==
    \A c \in Slots :
        LET r == calls[c]
            res == GateContext(r)
        IN (r.pc = "done" /\ r.form.kind = "get_auth_context"
            /\ r.ctx = NoContext) =>
              /\ r.cause \in {"RuntimeError", "ValueError", "ExchangeFailed"}
              /\ \A role \in {"admin", "data_reader"} : ~check_role(res, role)
              /\ \A roles \in HelperLists :
                    ~check_any_role(res, roles) /\ ~check_all_roles(res, roles)
              /\ get_user_roles(res) = <<>>
              /\ get_user_info(res) = EmptyInfo

\* get_auth_context() has failed because the exchange failed
C39_Witness ==
    \E c \in Slots :
        /\ calls[c].pc = "done"
        /\ calls[c].form.kind = "get_auth_context"
        /\ calls[c].ctx = NoContext
        /\ calls[c].nExchange = 1
        /\ get_user_info(GateContext(calls[c])) = EmptyInfo

====
